---- MODULE Spec2Model ----
(***************************************************************************)
(* A model of galsim/series.py: the two LRU caches of basis tables shared  *)
(* by all Series objects (Series.__init__, _basisCube, _basisKCube,        *)
(* drawImage, drawKImage), and the Series subclasses that feed them        *)
(* (SpergelSeries, MoffatSeries, LinearOpticalSeries, SeriesConvolution).  *)
(*                                                                         *)
(* Python values are modelled as records.  A link of a cache is the list   *)
(* [PREV, NEXT, KEY, RESULT] of the source; links live in one heap         *)
(* (`links`) because a link of one cache can point to a link of the other. *)
(***************************************************************************)
EXTENDS Integers, Sequences, FiniteSets, TLC

VARIABLES
    links,      \* the heap of cache links: link id -> [PREV, NEXT, KEY, RESULT]
    cache,      \* Series._cache: key -> link id
    kcache,     \* Series._kcache: key -> link id
    root,       \* Series._root (None before the first construction)
    kroot,      \* Series._kroot
    patched,    \* plain profile id -> the value of `obj` its lambdas read
    series,     \* the Series objects constructed so far
    pc,         \* thread -> its position inside _basisCube
    tl,         \* thread -> the locals of its _basisCube call
    maxcache,   \* history: the maxcache of the construction that built the caches
    ncalls,     \* history: the number of draw calls counted by Spec
    heap,       \* address -> the SpergelSeries/MoffatSeries object or matrix stored there
    origin,     \* history: address of an object -> how the object was made
    canvas,     \* the Image object the caller of GSObject.drawImage holds (or None)
    config,     \* BuildImages: the config dict of the main process (None: not called)
    main,       \* BuildImages: position and locals of the main process
    task_queue, \* BuildImages: the tasks put and not yet taken
    done_queue, \* BuildImages: the results put and not yet taken
    workers,    \* BuildImages: worker process -> its state
    recent,     \* history: the last maxcache distinct keys drawImage reached, oldest first
    krecent,    \* history: the same for drawKImage
    last        \* history: the last call and how it ended

vars ==
    <<links, cache, kcache, root, kroot, patched, series, pc, tl, heap, origin, canvas,
      config, main, task_queue, done_queue, workers,
      maxcache, ncalls, recent, krecent, last>>

cacheVars == <<links, cache, kcache, root, kroot, maxcache, recent, krecent>>

objectVars == <<patched, series>>

threadVars == <<pc, tl>>

\* the variables the cache, thread and constructor actions never touch
buildVars == <<config, main, task_queue, done_queue, workers>>

extraVars == <<heap, origin, canvas, buildVars>>

(***************************************************************************)
(* Bounds of the model.                                                    *)
(***************************************************************************)
\* largest maxcache passed to the first Series construction
MaxCache == 2

\* largest number of draw calls in a run that mixes drawImage and drawKImage
MaxCalls == 5

(***************************************************************************)
(* Python's None, and small helpers on sequences.                          *)
(***************************************************************************)
None == [cls |-> "NoneType"]

Range(s) == {s[i] : i \in DOMAIN s}

RECURSIVE SeqRemove(_, _)
SeqRemove(s, x) ==
    IF s = <<>> THEN <<>>
    ELSE IF Head(s) = x THEN SeqRemove(Tail(s), x)
    ELSE <<Head(s)>> \o SeqRemove(Tail(s), x)

\* the last n elements of s (all of s when it is shorter)
LastN(s, n) ==
    IF Len(s) <= n THEN s ELSE SubSeq(s, Len(s) - n + 1, Len(s))


(***************************************************************************)
(* Series objects.  A 2x2 matrix is kept exactly, as four integers over a  *)
(* power of two: [m |-> <<a, b, c, d>>, k |-> e] is the matrix             *)
(* [[a, b], [c, d]] / 2^e.  dlnr is kept by its base: dlnr = ln(base).     *)
(* A scale radius on the grid exp(dlnr*i) is kept by its index i.          *)
(***************************************************************************)
Mat(a, b, c, d, e) == [m |-> <<a, b, c, d>>, k |-> e]

\* np.identity(2)*scale_radius
ScaledIdentity(s) == Mat(s, 0, 0, s, 0)

GSParams(n) == [cls |-> "GSParams", id |-> n]

\* SpergelSeries(nu, jmax, dlnr=np.log(2), scale_radius=scale_radius,
\* gsparams=gsparams): the attributes set by the constructor; `ellip` (and with
\* it phi0, Delta and the snapped scale_radius) is not set yet: dec = None.
SpergelSeries(nu, jmax, scale_radius, gsparams) ==
    [cls |-> "SpergelSeries", nu |-> nu, jmax |-> jmax, dlnr |-> [ln |-> 2],
     flux |-> 1, gsparams |-> gsparams, A |-> ScaledIdentity(scale_radius),
     dec |-> None]

\* MoffatSeries(beta, jmax, dlnr=np.log(2), scale_radius=scale_radius,
\* gsparams=gsparams)
MoffatSeries(beta, jmax, scale_radius, gsparams) ==
    [cls |-> "MoffatSeries", beta |-> beta, jmax |-> jmax, dlnr |-> [ln |-> 2],
     flux |-> 1, gsparams |-> gsparams, A |-> ScaledIdentity(scale_radius),
     dec |-> None]

\* search range of the grid index in _decomposeA
SnapRange == 6

\* a^2 + b^2 + c^2 + d^2 of the integer part of the matrix
NormSq(A) == A.m[1]*A.m[1] + A.m[2]*A.m[2] + A.m[3]*A.m[3] + A.m[4]*A.m[4]

\* the sign of N - 2^e, for an integer N >= 1 and any integer e
CmpPow2(N, e) ==
    IF e < 0 THEN 1
    ELSE IF N > 2^e THEN 1 ELSE IF N = 2^e THEN 0 ELSE -1

(***************************************************************************)
(* _decomposeA computes mu = sqrt(ad-bc), eta = acosh(((a-d)^2+(b+c)^2)    *)
(* /(2 mu^2) + 1), ellip = tanh(eta) and r0 = mu/(1-ellip^2)^(1/4).  Since *)
(* 1-tanh(eta)^2 = 1/cosh(eta)^2, r0^2 = mu^2 cosh(eta)                    *)
(* = (a^2+b^2+c^2+d^2)/2 exactly.  With dlnr = ln 2 the quotient           *)
(* x = log(r0)/dlnr is log2(r0), and x is compared with an integer n by    *)
(* comparing NormSq(A) with a power of two:                                *)
(*    x >= n      iff  NormSq >= 2^(2n+1+2k)                               *)
(*    x >  n+1/2  iff  NormSq >  2^(2n+2+2k)                               *)
(***************************************************************************)
\* the sign of x - n
CmpX(A, n) == CmpPow2(NormSq(A), 2*n + 1 + 2*A.k)

\* x > n + 1/2
XGtHalf(A, n) == CmpPow2(NormSq(A), 2*n + 2 + 2*A.k) = 1

\* the integral part np.modf returns: x truncated toward zero
ModfInt(A) ==
    IF CmpX(A, 0) >= 0
    THEN CHOOSE n \in 0..SnapRange : CmpX(A, n) >= 0 /\ CmpX(A, n + 1) < 0
    ELSE CHOOSE n \in (0 - SnapRange)..0 : CmpX(A, n) <= 0 /\ CmpX(A, n - 1) > 0

\* lines 468-477 without lines 470-472: a negative fractional part is kept
TruncSnapIndex(A) ==
    LET i0 == ModfInt(A)
        i2 == IF XGtHalf(A, i0) THEN i0 + 1 ELSE i0
    IN  i2

\* lines 468-477: the grid index i after the two corrections; the fractional
\* part is f = x - i throughout (f += 1 goes with i -= 1, f -= 1 with i += 1)
SnapIndex(A) ==
    LET i0 == ModfInt(A)
        i1 == IF CmpX(A, i0) < 0 THEN i0 - 1 ELSE i0
        i2 == IF XGtHalf(A, i1) THEN i1 + 1 ELSE i1
    IN  i2

\* _decomposeA: ellip, phi0 and Delta are kept as terms over the matrix they
\* were computed from; scale_radius is the grid index
DecomposeA(self) ==
    IF self.dec # None THEN self.dec
    ELSE [ellip |-> [fn |-> "ellip", A |-> self.A],
          phi0 |-> [fn |-> "phi0", A |-> self.A],
          scale_radius |-> SnapIndex(self.A),
          Delta |-> [fn |-> "Delta", of |-> self.cls, A |-> self.A]]

\* the (j, q) pairs in the order of the two nested loops
RECURSIVE JQLoop(_, _, _)
JQLoop(j, q, jmax) ==
    IF j > jmax THEN <<>>
    ELSE IF q > j THEN JQLoop(j + 1, 0 - (j + 1), jmax)
    ELSE <<[j |-> j, q |-> q]>> \o JQLoop(j, q + 1, jmax)

JQPairs(jmax) == JQLoop(0, 0, jmax)

\* SpergelSeries._getCoeffs / MoffatSeries._getCoeffs: one coefficient per (j, q),
\* a term over what the formula reads
SeriesCoeffs(self) ==
    LET d == DecomposeA(self)
        jq == JQPairs(self.jmax)
    IN  [n \in 1..Len(jq) |->
            [cls |-> "coeff", of |-> self.cls, j |-> jq[n].j, q |-> jq[n].q,
             ellip |-> d.ellip, phi0 |-> d.phi0, Delta |-> d.Delta,
             flux |-> self.flux]]

\* Spergelet(nu, scale_radius, j, q, gsparams)
Spergelet(nu, scale_radius, j, q, gsparams) ==
    [cls |-> "Spergelet", nu |-> nu, scale_radius |-> scale_radius,
     j |-> j, q |-> q, gsparams |-> gsparams]

\* Moffatlet(beta, scale_radius, j, q, gsparams)
Moffatlet(beta, scale_radius, j, q, gsparams) ==
    [cls |-> "Moffatlet", beta |-> beta, scale_radius |-> scale_radius,
     j |-> j, q |-> q, gsparams |-> gsparams]

\* SpergelSeries._getBasisFuncs
SpergelBasisFuncs(self) ==
    LET d == DecomposeA(self)
        jq == JQPairs(self.jmax)
    IN  [n \in 1..Len(jq) |->
            Spergelet(self.nu, d.scale_radius, jq[n].j, jq[n].q, self.gsparams)]

\* MoffatSeries._getBasisFuncs
MoffatBasisFuncs(self) ==
    LET d == DecomposeA(self)
        jq == JQPairs(self.jmax)
    IN  [n \in 1..Len(jq) |->
            Moffatlet(self.beta, d.scale_radius, jq[n].j, jq[n].q, self.gsparams)]

\* SpergelSeries._series_idx
SpergelSeriesIdx(self) ==
    [cls |-> self.cls, nu |-> self.nu, jmax |-> self.jmax,
     scale_radius |-> DecomposeA(self).scale_radius]

\* MoffatSeries._series_idx
MoffatSeriesIdx(self) ==
    [cls |-> self.cls, beta |-> self.beta, jmax |-> self.jmax,
     scale_radius |-> DecomposeA(self).scale_radius]


(***************************************************************************)
(* SeriesConvolution.  A plain profile (GSObject) is the reference         *)
(* [cls |-> "GSObject", id |-> g]; its attributes _getCoeffs,              *)
(* _getBasisFuncs and _series_idx are the three lambdas __init__ stores on *)
(* it.  The lambdas read the variable `obj` of the __init__ call that made *)
(* them, so what they return is decided by the value `obj` holds when they *)
(* are called: pt[g] is that value (None: g was never patched).            *)
(***************************************************************************)
GSObject(g) == [cls |-> "GSObject", id |-> g]

PyList(items) == [cls |-> "list", items |-> items]

IsSeries(o) ==
    o.cls \in {"SpergelSeries", "MoffatSeries", "LinearOpticalSeries",
               "SeriesConvolution"}

IsGSObject(o) == o.cls = "GSObject"

\* id(o): the identity of the object o
PyId(o) == IF IsGSObject(o) THEN [cls |-> "id", of |-> o.id]
           ELSE [cls |-> "id", of |-> o]

\* the arguments taken as they are
RECURSIVE NoUnpackArgs(_)
NoUnpackArgs(args) ==
    IF args = <<>> THEN <<>>
    ELSE <<Head(args)>> \o NoUnpackArgs(Tail(args))

\* lines 303-309: unpack any convolution among the arguments
RECURSIVE UnpackArgs(_)
UnpackArgs(args) ==
    IF args = <<>> THEN <<>>
    ELSE IF Head(args).cls = "SeriesConvolution"
         THEN Head(args).objlist \o UnpackArgs(Tail(args))
         ELSE <<Head(args)>> \o UnpackArgs(Tail(args))

\* lines 285-297: the operands named by *args; err # "" when __init__ raises
ConvArgs(args) ==
    IF Len(args) = 0 THEN [err |-> "ValueError", args |-> <<>>]
    ELSE IF Len(args) = 1
    THEN IF IsSeries(args[1]) \/ IsGSObject(args[1])
         THEN [err |-> "", args |-> <<args[1]>>]
         ELSE IF args[1].cls = "list"
         THEN [err |-> "", args |-> args[1].items]
         ELSE [err |-> "TypeError", args |-> <<>>]
    ELSE [err |-> "", args |-> args]

\* lines 311-321: every GSObject of objlist gets the three lambdas; all of them
\* read the loop variable obj, which the loop leaves at the last operand
PatchObjects(pt, objlist) ==
    [g \in DOMAIN pt |->
        IF \E n \in DOMAIN objlist : objlist[n] = GSObject(g)
        THEN objlist[Len(objlist)] ELSE pt[g]]

\* itertools.product(*pools): result = [[]], then for each pool
\* result = [x+[y] for x in result for y in pool]
ProductStep(result, pool) ==
    [n \in 1..(Len(result) * Len(pool)) |->
        result[((n - 1) \div Len(pool)) + 1] \o <<pool[((n - 1) % Len(pool)) + 1]>>]

RECURSIVE ProductLoop(_, _)
ProductLoop(result, pools) ==
    IF pools = <<>> THEN result
    ELSE ProductLoop(ProductStep(result, Head(pools)), Tail(pools))

Product(pools) == ProductLoop(<< <<>> >>, pools)

\* the number of elements of the axes after axis j of an array of these lengths
RECURSIVE Stride(_, _)
Stride(lens, j) ==
    IF j >= Len(lens) THEN 1 ELSE lens[j + 1] * Stride(lens, j + 1)

\* np.multiply.reduce(np.ix_(*cs)).ravel(): the outer product of the coefficient
\* vectors, its element (i1, ..., ik) at flat position sum (i_j * stride_j); a
\* product of coefficients is kept as the tuple of its factors
OuterRavel(cs) ==
    LET lens == [j \in DOMAIN cs |-> Len(cs[j])]
    IN  [f \in 1..Stride(<<1>> \o lens, 1) |->
            [j \in DOMAIN cs |->
                cs[j][(((f - 1) \div Stride(lens, j)) % lens[j]) + 1]]]

\* galsim.Convolve(*o): a Convolution of the profiles o; constructing one with
\* zero children fails
Convolve(o) ==
    IF o = <<>> THEN [cls |-> "ConfigurationError"]
    ELSE [cls |-> "Convolution", objs |-> o]

\* a list comprehension raises when building one of its elements raises
Raises(list) == \E n \in DOMAIN list : list[n].cls = "ConfigurationError"

\* SeriesConvolution.__init__ after the argument checks: the attributes set
SeriesConvolution(objlist) ==
    [cls |-> "SeriesConvolution", objlist |-> objlist, gsparams |-> None]


(***************************************************************************)
(* LinearOpticalSeries.  A number that may be None is the record Num(v).   *)
(* An aberration a stands for the wavefront coefficient a (in waves); the  *)
(* factor 2 pi and the norm(n, m) factor are kept inside the terms.        *)
(***************************************************************************)
Num(v) == [cls |-> "float", v |-> v]

\* the argument of nollZernikeDict that builds the module's table
NollJMax == 100

\* nollZernikeDict, the inner loop `for m in xrange(n+1)`: j the next Noll
\* index, ret the dictionary built so far; done when the loop returned ret
RECURSIVE NollRow(_, _, _, _, _)
NollRow(n, m, j, ret, jmax) ==
    IF m > n THEN [j |-> j, ret |-> ret, done |-> FALSE]
    ELSE IF (m + n) % 2 = 1 THEN NollRow(n, m + 1, j, ret, jmax)
    ELSE LET ret2 == IF m = 0 THEN (j :> <<n, m>>) @@ ret
                     ELSE IF j % 2 = 0
                     THEN (j :> <<n, m>>) @@ ((j + 1) :> <<n, 0 - m>>) @@ ret
                     ELSE (j :> <<n, 0 - m>>) @@ ((j + 1) :> <<n, m>>) @@ ret
             j2 == IF m = 0 THEN j + 1 ELSE j + 2
         IN  IF j2 > jmax THEN [j |-> j2, ret |-> ret2, done |-> TRUE]
             ELSE NollRow(n, m + 1, j2, ret2, jmax)

\* nollZernikeDict, the outer loop `for n in count()`
RECURSIVE NollLoop(_, _, _, _)
NollLoop(n, j, ret, jmax) ==
    LET r == NollRow(n, 0, j, ret, jmax)
    IN  IF r.done THEN r.ret ELSE NollLoop(n + 1, r.j, r.ret, jmax)

nollZernikeDict(jmax) == NollLoop(0, 1, <<>>, jmax)

nollZernike == nollZernikeDict(NollJMax)

\* itertools.combinations(s, 2)
RECURSIVE Combinations2(_)
Combinations2(s) ==
    IF Len(s) < 2 THEN <<>>
    ELSE [n \in 1..(Len(s) - 1) |-> <<s[1], s[n + 1]>>] \o Combinations2(Tail(s))

\* lines 739-758: the individual aberrations packed into an array of 12 and
\* clipped after the largest non-zero entry (or at 2); indiv is
\* <<tip, tilt, defocus, astig1, astig2, coma1, coma2, trefoil1, trefoil2, spher>>
PackAberrations(indiv) ==
    LET arr == <<0, 0>> \o indiv
        nz == {n \in 1..12 : arr[n] # 0}
        i == IF nz = {} THEN 2
             ELSE LET top == CHOOSE n \in nz : \A k \in nz : k <= n
                  IN  IF top > 2 THEN top ELSE 2
    IN  SubSeq(arr, 1, i)

\* lines 779-802: the terms that are pure real and pure imaginary; position n of
\* the array is index j = n - 1 of the source
RECURSIVE SplitLoop(_, _, _)
SplitLoop(ab, n, acc) ==
    IF n > Len(ab) THEN acc
    ELSE IF n - 1 < 2 THEN SplitLoop(ab, n + 1, acc)
    ELSE LET nm == nollZernike[n - 1]
             ipower == (nm[2] + 1) % 4
             c == [n |-> nm[1], m |-> nm[2], ab |-> ab[n],
                   sign |-> IF ipower \in {0, 1} THEN 1 ELSE -1]
         IN  IF ipower \in {0, 2}
             THEN SplitLoop(ab, n + 1,
                    [acc EXCEPT !.realcoeffs = Append(@, c),
                                !.realindices = Append(@, <<nm[1], nm[2]>>)])
             ELSE SplitLoop(ab, n + 1,
                    [acc EXCEPT !.imagcoeffs = Append(@, c),
                                !.imagindices = Append(@, <<nm[1], nm[2]>>)])

\* c**2 for a coefficient, 2*c1*c2 for a pair
Square(c) == [two |-> FALSE, f |-> <<c, c>>]

Twice(pair) == [two |-> TRUE, f |-> pair]

\* LinearOpticalSeries.__init__; err # "" when it raises
LinearOpticalSeries(lam_over_diam, lam, diam, indiv, aberrations) ==
    LET bad1 == lam_over_diam # None /\ (lam # None \/ diam # None)
        bad2 == lam_over_diam = None /\ (lam = None \/ diam = None)
        bad3 == aberrations # None /\ Len(aberrations.items) <= 2
        bad4 == aberrations # None /\ \E n \in DOMAIN indiv : indiv[n] # 0
        ab == IF aberrations = None THEN PackAberrations(indiv)
              ELSE aberrations.items
        one == [n |-> 0, m |-> 0, ab |-> 1, sign |-> 1]
        sp == SplitLoop(ab, 1, [realcoeffs |-> <<one>>, imagcoeffs |-> <<>>,
                                realindices |-> << <<0, 0>> >>, imagindices |-> <<>>])
        sq(seq) == [n \in DOMAIN seq |-> Square(seq[n])]
        tw(seq) == [n \in DOMAIN seq |-> Twice(seq[n])]
        dup(seq) == [n \in DOMAIN seq |-> <<seq[n], seq[n]>>]
    IN  IF bad1 \/ bad2 THEN [err |-> "TypeError"]
        ELSE IF bad3 THEN [err |-> "ValueError"]
        ELSE IF bad4 THEN [err |-> "TypeError"]
        ELSE [err |-> "", cls |-> "LinearOpticalSeries",
              lam_over_diam |-> lam_over_diam, flux |-> 1,
              aberrations |-> ab,
              coeffs |-> sq(sp.realcoeffs) \o sq(sp.imagcoeffs)
                         \o tw(Combinations2(sp.realcoeffs))
                         \o tw(Combinations2(sp.imagcoeffs)),
              indices |-> dup(sp.realindices) \o dup(sp.imagindices)
                          \o Combinations2(sp.realindices)
                          \o Combinations2(sp.imagindices)]

\* LinearOpticalet(scale_radius, n1, m1, n2, m2)
LinearOpticalet(scale_radius, n1, m1, n2, m2) ==
    [cls |-> "LinearOpticalet", scale_radius |-> scale_radius,
     n1 |-> n1, m1 |-> m1, n2 |-> n2, m2 |-> m2]

\* LinearOpticalSeries._getBasisFuncs
LinearOpticalBasisFuncs(self) ==
    [n \in DOMAIN self.indices |->
        LinearOpticalet(self.lam_over_diam, self.indices[n][1][1],
                        self.indices[n][1][2], self.indices[n][2][1],
                        self.indices[n][2][2])]

\* LinearOpticalSeries._series_idx
LinearOpticalSeriesIdx(self) ==
    [cls |-> self.cls, lam_over_diam |-> self.lam_over_diam,
     naberrations |-> Len(self.aberrations)]


(***************************************************************************)
(* The three methods every Series defines, dispatched on the class of the  *)
(* receiver.  pt is the state of the lambdas stored on the plain profiles. *)
(***************************************************************************)
RECURSIVE GetCoeffs(_, _)
GetCoeffs(pt, self) ==
    IF self.cls \in {"SpergelSeries", "MoffatSeries"} THEN SeriesCoeffs(self)
    ELSE IF self.cls = "LinearOpticalSeries" THEN self.coeffs
    ELSE IF self.cls = "SeriesConvolution"
    THEN OuterRavel([n \in DOMAIN self.objlist |-> GetCoeffs(pt, self.objlist[n])])
    ELSE <<Num(1)>>

RECURSIVE GetBasisFuncs(_, _)
GetBasisFuncs(pt, self) ==
    IF self.cls = "SpergelSeries" THEN SpergelBasisFuncs(self)
    ELSE IF self.cls = "MoffatSeries" THEN MoffatBasisFuncs(self)
    ELSE IF self.cls = "LinearOpticalSeries" THEN LinearOpticalBasisFuncs(self)
    ELSE IF self.cls = "SeriesConvolution"
    THEN LET o == Product([n \in DOMAIN self.objlist |->
                              GetBasisFuncs(pt, self.objlist[n])])
         IN  [n \in DOMAIN o |-> Convolve(o[n])]
    ELSE <<pt[self.id]>>

RECURSIVE SeriesIdx(_, _)
SeriesIdx(pt, self) ==
    IF self.cls = "SpergelSeries" THEN SpergelSeriesIdx(self)
    ELSE IF self.cls = "MoffatSeries" THEN MoffatSeriesIdx(self)
    ELSE IF self.cls = "LinearOpticalSeries" THEN LinearOpticalSeriesIdx(self)
    ELSE IF self.cls = "SeriesConvolution"
    THEN [cls |-> self.cls,
          ops |-> [n \in DOMAIN self.objlist |-> SeriesIdx(pt, self.objlist[n])]]
    ELSE PyId(pt[self.id])

(***************************************************************************)
(* Transforms of a SpergelSeries / MoffatSeries.                           *)
(***************************************************************************)
\* a matrix with the common factors of two cancelled
RECURSIVE Reduce(_)
Reduce(A) ==
    IF A.k > 0 /\ \A n \in 1..4 : A.m[n] % 2 = 0
    THEN Reduce([m |-> [n \in 1..4 |-> A.m[n] \div 2], k |-> A.k - 1])
    ELSE A

\* the matrix product A * J
MatMul(A, J) ==
    Reduce([m |-> <<A.m[1]*J.m[1] + A.m[2]*J.m[3], A.m[1]*J.m[2] + A.m[2]*J.m[4],
                    A.m[3]*J.m[1] + A.m[4]*J.m[3], A.m[3]*J.m[2] + A.m[4]*J.m[4]>>,
            k |-> A.k + J.k])

\* _applyMatrix without lines 415-416: the copy keeps the attribute ellip
KeepEllipApplyMatrix(self, J) == [self EXCEPT !.A = MatMul(self.A, J)]

\* _applyMatrix: ret = self.copy(); ret._A *= J; del ret.ellip
ApplyMatrix(self, J) == [self EXCEPT !.A = MatMul(self.A, J), !.dec = None]

\* dilate(2) and dilate(1/2): np.diag([scale, scale])
\* shear(g1 = 3/5): (1/sqrt(1-g^2)) [[1+g1, g2], [g2, 1-g1]] = diag(2, 1/2)
\* shear(g2 = 3/5): [[5/4, 3/4], [3/4, 5/4]]
\* rotate(90 degrees): [[0, -1], [1, 0]]
Transforms ==
    {Mat(2, 0, 0, 2, 0), Mat(1, 0, 0, 1, 1), Mat(4, 0, 0, 1, 1),
     Mat(5, 3, 3, 5, 2), Mat(0, -1, 1, 0, 0)}


(***************************************************************************)
(* The caches.  Link layout: [PREV, NEXT, KEY, RESULT].                    *)
(***************************************************************************)
Lnk(space, n) == [space |-> space, n |-> n]

\* key = object(): a key equal to nothing else
PlaceholderKey(space, n) == [cls |-> "object", space |-> space, n |-> n]

EmptyLink == [PREV |-> None, NEXT |-> None, KEY |-> None, RESULT |-> None]

\* the default of maxcache in Series.__init__
DefaultMaxCache == 100

\* lines 66-70 (and 74-78): the ring the loop `for i in range(maxcache)` leaves.
\* Link i (1..maxcache) is made as [last, root, key, None], with `last` the link
\* made before it (the root for i = 1) and key a new object(), and is stored as the
\* NEXT of that link; the root starts as [None, None, None, None]
Ring(space, mc) ==
    [l \in {Lnk(space, n) : n \in 0..mc} |->
        IF l.n = 0
        THEN [EmptyLink EXCEPT !.NEXT = IF mc >= 1 THEN Lnk(space, 1) ELSE None]
        ELSE [PREV |-> Lnk(space, l.n - 1),
              NEXT |-> IF l.n < mc THEN Lnk(space, l.n + 1) ELSE Lnk(space, 0),
              KEY |-> PlaceholderKey(space, l.n),
              RESULT |-> None]]

\* the dictionary entries the loop adds: cache[key] = the link made for key
RingKeys(space, mc) ==
    [k \in {PlaceholderKey(space, n) : n \in 1..mc} |-> Lnk(space, k.n)]

\* lines 65-79: both rings are built; line 71 closes the real-space ring with
\* root[0] = last, and line 79 stores the same `last`, the last link of the
\* real-space ring, as the PREV of the Fourier-space root
InitCaches(lk, mp, kmp, mc) ==
    LET rt == Lnk("cache", 0)
        krt == Lnk("kcache", 0)
        lastl == Lnk("cache", mc)
        ring == [Ring("cache", mc) EXCEPT ![rt].PREV = lastl]
        kring == [Ring("kcache", mc) EXCEPT ![krt].PREV = lastl]
    IN  [links |-> kring @@ ring @@ lk,
         cache |-> RingKeys("cache", mc) @@ mp,
         kcache |-> RingKeys("kcache", mc) @@ kmp,
         root |-> rt, kroot |-> krt]

\* a hit that returns the table and leaves the link where it is
NoPromoteLinkHit(lk, rt, link) == lk

\* lines 97-103 (and 143-149): the found link is unlinked and linked in again
\* before the root, as the most recently used

LinkHit(lk, rt, link) ==
    LET link_prev == lk[link].PREV
        link_next == lk[link].NEXT
        l1 == [lk EXCEPT ![link_prev].NEXT = link_next]
        l2 == [l1 EXCEPT ![link_next].PREV = link_prev]
        lst == l2[rt].PREV
        l3 == [l2 EXCEPT ![lst].NEXT = link]
        l4 == [l3 EXCEPT ![rt].PREV = link]
        l5 == [l4 EXCEPT ![link].PREV = lst]
    IN  [l5 EXCEPT ![link].NEXT = rt]

\* a miss without line 126, `del cache[oldkey]`
NoEvictLinkMiss(lk, mp, rt, key, result) ==
    IF rt = None
    THEN [err |-> "TypeError", links |-> lk, map |-> mp, root |-> rt, oldkey |-> None]
    ELSE
    LET l1 == [lk EXCEPT ![rt].KEY = key, ![rt].RESULT = result]
        newroot == l1[rt].NEXT
    IN  IF newroot = None
        THEN [err |-> "TypeError", links |-> l1, map |-> mp, root |-> newroot,
              oldkey |-> None]
        ELSE [err |-> "", root |-> newroot, oldkey |-> l1[newroot].KEY,
              links |-> [l1 EXCEPT ![newroot].KEY = None, ![newroot].RESULT = None],
              map |-> (key :> rt) @@ mp]

\* lines 118-127 (and 167-176): the root takes the new key and table, the next
\* link becomes the root and gives up its key, which leaves the dictionary
LinkMiss(lk, mp, rt, key, result) ==
    IF rt = None
    THEN [err |-> "TypeError", links |-> lk, map |-> mp, root |-> rt, oldkey |-> None]
    ELSE
    LET l1 == [lk EXCEPT ![rt].KEY = key, ![rt].RESULT = result]
        newroot == l1[rt].NEXT
    IN  IF newroot = None
        THEN [err |-> "TypeError", links |-> l1, map |-> mp, root |-> newroot,
              oldkey |-> None]
        ELSE
        LET oldkey == l1[newroot].KEY
            l2 == [l1 EXCEPT ![newroot].KEY = None, ![newroot].RESULT = None]
        IN  IF oldkey \notin DOMAIN mp
            THEN [err |-> "KeyError", links |-> l2, map |-> mp, root |-> newroot,
                  oldkey |-> oldkey]
            ELSE [err |-> "", links |-> l2, root |-> newroot, oldkey |-> oldkey,
                  map |-> (key :> rt) @@ [k \in DOMAIN mp \ {oldkey} |-> mp[k]]]


(***************************************************************************)
(* Draw arguments and basis tables.  A keyword argument is the pair        *)
(* [name, value]; the keywords of a call arrive as a dictionary, whose     *)
(* items come in no particular order.                                      *)
(***************************************************************************)
\* the keyword names used, in the order Python sorts them
KwNames == <<"nx", "scale">>

KwRank(name) == CHOOSE n \in DOMAIN KwNames : KwNames[n] = name

Kw(name, value) == [name |-> name, value |-> value]

\* the (name, value) tuples compare by name first, then by value
KwLess(a, b) ==
    \/ KwRank(a.name) < KwRank(b.name)
    \/ KwRank(a.name) = KwRank(b.name) /\ a.value < b.value

RECURSIVE SortInsert(_, _)
SortInsert(x, s) ==
    IF s = <<>> THEN <<x>>
    ELSE IF KwLess(x, Head(s)) THEN <<x>> \o s
    ELSE <<Head(s)>> \o SortInsert(x, Tail(s))

RECURSIVE SortedItems(_)
SortedItems(items) ==
    IF items = <<>> THEN <<>>
    ELSE SortInsert(Head(items), SortedItems(Tail(items)))

\* lines 189 and 205: key = (self._series_idx(), args, tuple(sorted(kwargs.items())))
DrawKey(pt, self, args, kwargs) ==
    [idx |-> SeriesIdx(pt, self), args |-> args, kwargs |-> SortedItems(kwargs)]

\* the stack of the arrays obj.drawImage(*args, **kwargs).array.ravel(), one row
\* for each obj of objs: a term over the profiles and the draw arguments
DrawnArrays(kind, objs, args, kwargs) ==
    [fn |-> kind, objs |-> objs, args |-> args, kwargs |-> kwargs]

\* lines 106-117: the table built on a miss
BuildCube(pt, self, args, kwargs) ==
    LET objs == GetBasisFuncs(pt, self)
    IN  [cube |-> DrawnArrays("drawImage", objs, args, kwargs),
         shape |-> DrawnArrays("shape", <<objs[1]>>, args, kwargs)]

\* lines 152-166: the pair of tables built on a miss
BuildKCube(pt, self, args, kwargs) ==
    LET objs == GetBasisFuncs(pt, self)
    IN  [recube |-> DrawnArrays("drawKImage.re", objs, args, kwargs),
         imcube |-> DrawnArrays("drawKImage.im", objs, args, kwargs),
         shape |-> DrawnArrays("kshape", <<objs[1]>>, args, kwargs)]

\* Series._basisCube / Series._basisKCube on the cache (mp, rt); table is what a
\* miss would build
CacheLookup(lk, mp, rt, key, table) ==
    IF key \in DOMAIN mp
    THEN [hit |-> TRUE, err |-> "", result |-> lk[mp[key]].RESULT, oldkey |-> None,
          links |-> LinkHit(lk, rt, mp[key]), map |-> mp, root |-> rt]
    ELSE LET m == LinkMiss(lk, mp, rt, key, table)
         IN  [hit |-> FALSE, err |-> m.err, result |-> table, oldkey |-> m.oldkey,
              links |-> m.links, map |-> m.map, root |-> m.root]

\* the exception that ends lines 105-117 (and 151-166), "" for none:
\* _getBasisFuncs raises, or the draw of a basis profile does, as
\* GSObject.drawImage and drawKImage do for nx without scale
BuildErr(pt, self, kwargs) ==
    IF Raises(GetBasisFuncs(pt, self)) THEN "ConfigurationError"
    ELSE IF /\ \E n \in DOMAIN kwargs : kwargs[n].name = "nx"
            /\ \A n \in DOMAIN kwargs : kwargs[n].name # "scale"
    THEN "ValueError"
    ELSE ""

\* a miss that stores the key in the root link before the table is built
EarlyStoreBuildFailure(lk, mp, rt, key, err) ==
    [hit |-> FALSE, err |-> err, result |-> None, oldkey |-> None,
     links |-> [lk EXCEPT ![rt].KEY = key], map |-> mp, root |-> rt]

\* a miss whose build raises: the exception leaves _basisCube (_basisKCube)
\* before line 118 (167), the first write to the links
BuildFailure(lk, mp, rt, key, err) ==
    [hit |-> FALSE, err |-> err, result |-> None, oldkey |-> None,
     links |-> lk, map |-> mp, root |-> rt]

\* Series._basisCube
BasisCube(pt, self, key, lk, mp, rt) ==
    IF key \notin DOMAIN mp /\ BuildErr(pt, self, key.kwargs) # ""
    THEN BuildFailure(lk, mp, rt, key, BuildErr(pt, self, key.kwargs))
    ELSE CacheLookup(lk, mp, rt, key, BuildCube(pt, self, key.args, key.kwargs))

\* Series._basisKCube
BasisKCube(pt, self, key, lk, mp, rt) ==
    IF key \notin DOMAIN mp /\ BuildErr(pt, self, key.kwargs) # ""
    THEN BuildFailure(lk, mp, rt, key, BuildErr(pt, self, key.kwargs))
    ELSE CacheLookup(lk, mp, rt, key, BuildKCube(pt, self, key.args, key.kwargs))

\* np.dot(coeffs, cube).reshape(shape), wrapped in galsim.Image
Image(coeffs, cube, shape) ==
    [cls |-> "Image", array |-> [fn |-> "dot", coeffs |-> coeffs, cube |-> cube],
     shape |-> shape]

\* history: key has just been reached; the last cap distinct keys are kept
Touch(rec, key, cap) == LastN(Append(SeqRemove(rec, key), key), cap)

(***************************************************************************)
(* The Series objects that are drawn, and the draw calls made on them.     *)
(***************************************************************************)
Call(self, kwargs) == [self |-> self, args |-> <<>>, kwargs |-> kwargs]

\* two objects that differ in gsparams only, and one that differs in jmax and size;
\* the same keywords written in both orders, and with one keyword left out
DrawCalls ==
    {Call(SpergelSeries(1, 0, 1, None), <<>>),
     Call(SpergelSeries(1, 0, 1, GSParams(1)), <<>>),
     Call(SpergelSeries(1, 0, 1, None), <<Kw("scale", 1)>>),
     Call(SpergelSeries(1, 0, 1, None), <<Kw("nx", 8), Kw("scale", 1)>>),
     Call(SpergelSeries(1, 0, 1, None), <<Kw("scale", 1), Kw("nx", 8)>>),
     Call(SpergelSeries(1, 1, 3, None), <<>>)}

\* the calls made when both drawImage and drawKImage are called
MixedCalls ==
    {Call(SpergelSeries(1, 0, 1, None), <<>>),
     Call(SpergelSeries(1, 0, 1, GSParams(1)), <<>>),
     Call(SpergelSeries(1, 0, 1, None), <<Kw("scale", 1)>>),
     Call(SpergelSeries(1, 1, 3, None), <<>>)}

Threads == {1, 2}

(***************************************************************************)
(* The initial state: no Series has been constructed.                      *)
(***************************************************************************)
Init ==
    /\ links = <<>>
    /\ cache = <<>>
    /\ kcache = <<>>
    /\ root = None
    /\ kroot = None
    /\ patched = [g \in {1, 2} |-> None]
    /\ series = {}
    /\ pc = [t \in Threads |-> "idle"]
    /\ tl = [t \in Threads |-> None]
    /\ heap = <<>>
    /\ origin = <<>>
    /\ canvas = None
    /\ config = None
    /\ main = [pc |-> "idle"]
    /\ task_queue = <<>>
    /\ done_queue = <<>>
    /\ workers = <<>>
    /\ maxcache = -1
    /\ ncalls = 0
    /\ recent = <<>>
    /\ krecent = <<>>
    /\ last = [op |-> "start"]

\* Series.__init__ on the caches: they are built when Series._root is None
SeriesInit(mc) ==
    IF root = None
    THEN LET r == InitCaches(links, cache, kcache, mc)
         IN  /\ links' = r.links
             /\ cache' = r.cache
             /\ kcache' = r.kcache
             /\ root' = r.root
             /\ kroot' = r.kroot
             /\ maxcache' = mc
             /\ recent' = <<>>
             /\ krecent' = <<>>
    ELSE UNCHANGED cacheVars

\* Series(maxcache=mc)
Construct(mc) ==
    /\ SeriesInit(mc)
    /\ last' = [op |-> "Series", built |-> (root = None), arg |-> mc]
    /\ UNCHANGED <<objectVars, extraVars, threadVars>>

\* the error of unpacking what the cache returned into the names of the caller:
\* `cube, shape = ...` (line 190) wants a pair, `recube, imcube, shape = ...`
\* (line 206) a triple
UnpackErr(r, field) ==
    IF r.err # "" THEN r.err
    ELSE IF r.result = None THEN "TypeError"
    ELSE IF field \notin DOMAIN r.result THEN "ValueError"
    ELSE ""

\* self.drawImage(*args, **kwargs)
DrawImage(self, args, kwargs) ==
    /\ maxcache # -1
    /\ \E key \in {DrawKey(patched, self, args, kwargs)} :
       \E r \in {BasisCube(patched, self, key, links, cache, root)} :
       \E err \in {UnpackErr(r, "cube")} :
           /\ links' = r.links
           /\ cache' = r.map
           /\ root' = r.root
           /\ recent' = IF r.err = "" THEN Touch(recent, key, maxcache) ELSE recent
           /\ last' = [op |-> "drawImage", self |-> self, key |-> key,
                       hit |-> r.hit, err |-> err, result |-> r.result,
                       oldkey |-> r.oldkey,
                       ret |-> IF err = ""
                               THEN Image(GetCoeffs(patched, self), r.result.cube,
                                          r.result.shape)
                               ELSE None]
    /\ UNCHANGED <<kcache, kroot, maxcache, krecent, objectVars, extraVars, threadVars>>

\* self.drawKImage(*args, **kwargs)
DrawKImage(self, args, kwargs) ==
    /\ maxcache # -1
    /\ \E key \in {DrawKey(patched, self, args, kwargs)} :
       \E r \in {BasisKCube(patched, self, key, links, kcache, kroot)} :
       \E err \in {UnpackErr(r, "recube")} :
           /\ links' = r.links
           /\ kcache' = r.map
           /\ kroot' = r.root
           /\ krecent' = IF r.err = "" THEN Touch(krecent, key, maxcache) ELSE krecent
           /\ last' = [op |-> "drawKImage", self |-> self, key |-> key,
                       hit |-> r.hit, err |-> err, result |-> r.result,
                       oldkey |-> r.oldkey,
                       ret |-> IF err = ""
                               THEN <<Image(GetCoeffs(patched, self), r.result.recube,
                                            r.result.shape),
                                      Image(GetCoeffs(patched, self), r.result.imcube,
                                            r.result.shape)>>
                               ELSE None]
    /\ UNCHANGED <<cache, root, maxcache, recent, objectVars, extraVars, threadVars>>

ConstructStep == \E mc \in 0..MaxCache : Construct(mc)

DrawImageStep == \E c \in DrawCalls : DrawImage(c.self, c.args, c.kwargs)

DrawKImageStep == \E c \in DrawCalls : DrawKImage(c.self, c.args, c.kwargs)

MixedImageStep ==
    /\ ncalls < MaxCalls
    /\ \E c \in MixedCalls : DrawImage(c.self, c.args, c.kwargs)
    /\ ncalls' = ncalls + 1

MixedKImageStep ==
    /\ ncalls < MaxCalls
    /\ \E c \in MixedCalls : DrawKImage(c.self, c.args, c.kwargs)
    /\ ncalls' = ncalls + 1

\* drawImage and drawKImage calls in any order, MaxCalls draw calls at most
Next ==
    \/ ConstructStep /\ UNCHANGED ncalls
    \/ MixedImageStep
    \/ MixedKImageStep

Spec == Init /\ [][Next]_vars

\* only drawImage is called
NextImage ==
    \/ ConstructStep /\ UNCHANGED ncalls
    \/ DrawImageStep /\ UNCHANGED ncalls

SpecImage == Init /\ [][NextImage]_vars

\* only drawKImage is called
NextKImage ==
    \/ ConstructStep /\ UNCHANGED ncalls
    \/ DrawKImageStep /\ UNCHANGED ncalls

SpecKImage == Init /\ [][NextKImage]_vars

\* draws that succeed, a draw with nx and no scale, which the basis profiles
\* reject, and a draw of a convolution of nothing, which has no basis function
FailCalls ==
    {Call(SpergelSeries(1, 0, 1, None), <<>>),
     Call(SpergelSeries(1, 1, 3, None), <<>>),
     Call(SpergelSeries(1, 0, 1, None), <<Kw("nx", 8)>>),
     Call(SeriesConvolution(<<>>), <<>>)}

FailImageStep ==
    /\ ncalls < MaxCalls
    /\ \E c \in FailCalls : DrawImage(c.self, c.args, c.kwargs)
    /\ ncalls' = ncalls + 1

FailKImageStep ==
    /\ ncalls < MaxCalls
    /\ \E c \in FailCalls : DrawKImage(c.self, c.args, c.kwargs)
    /\ ncalls' = ncalls + 1

\* drawImage and drawKImage calls, some of which fail while the table is built
NextFail ==
    \/ ConstructStep /\ UNCHANGED ncalls
    \/ FailImageStep
    \/ FailKImageStep

SpecFail == Init /\ [][NextFail]_vars


(***************************************************************************)
(* kValue, xValue and inspectCache, called between draws.                  *)
(***************************************************************************)
\* galsim.PositionD(x, y)
PositionD(x, y) == [cls |-> "PositionD", x |-> x, y |-> y]

\* lines 221-223 / 233-235: [obj.kValue(*args) for obj in self._getBasisFuncs()]
\* and np.dot of these values with the coefficients
PointValue(fn, pt, self, args) ==
    LET objs == GetBasisFuncs(pt, self)
    IN  IF Raises(objs) THEN [err |-> "ConfigurationError", ret |-> None]
        ELSE [err |-> "",
              ret |-> [fn |-> "dot",
                       vals |-> [n \in DOMAIN objs |->
                                    [fn |-> fn, obj |-> objs[n], args |-> args]],
                       coeffs |-> GetCoeffs(pt, self)]]

\* a kValue that takes its basis from the Fourier-space cache, as drawKImage does
CachedKValue(self, args) ==
    /\ maxcache # -1
    /\ LET key == DrawKey(patched, self, args, <<>>)
           r == BasisKCube(patched, self, key, links, kcache, kroot)
       IN  /\ links' = r.links
           /\ kcache' = r.map
           /\ kroot' = r.root
           /\ krecent' = IF r.err = "" THEN Touch(krecent, key, maxcache) ELSE krecent
           /\ last' = [op |-> "kValue", self |-> self, args |-> args, err |-> r.err,
                       ret |-> r.result]
    /\ UNCHANGED <<cache, root, maxcache, recent, objectVars, extraVars, threadVars>>

\* self.kValue(*args)
KValue(self, args) ==
    LET r == PointValue("kValue", patched, self, args)
    IN  /\ last' = [op |-> "kValue", self |-> self, args |-> args, err |-> r.err,
                    ret |-> r.ret]
        /\ UNCHANGED <<cacheVars, objectVars, extraVars, threadVars>>

\* self.xValue(*args)
XValue(self, args) ==
    LET r == PointValue("xValue", patched, self, args)
    IN  /\ last' = [op |-> "xValue", self |-> self, args |-> args, err |-> r.err,
                    ret |-> r.ret]
        /\ UNCHANGED <<cacheVars, objectVars, extraVars, threadVars>>

\* Series.inspectCache(): the two counts it prints.  The loop runs over the keys
\* of _cache that are tuples; a kimage is counted inside that loop, for a key
\* that is in _kcache too.  v[3][0] raises TypeError when the link holds no table.
InspectCache(lk, mp, kmp) ==
    LET keys == {k \in DOMAIN mp : "idx" \in DOMAIN k}
        kkeys == {k \in keys : k \in DOMAIN kmp}
    IN  [i |-> Cardinality(keys),
         ik |-> Cardinality(kkeys),
         err |-> IF \/ \E k \in keys : lk[mp[k]].RESULT = None
                    \/ \E k \in kkeys : lk[kmp[k]].RESULT = None
                 THEN "TypeError" ELSE ""]

\* Series.inspectCache()
InspectCacheStep ==
    /\ last' = [op |-> "inspectCache"] @@ InspectCache(links, cache, kcache)
    /\ UNCHANGED <<cacheVars, objectVars, extraVars, threadVars, ncalls>>

\* the Series objects that are drawn and whose values are asked
InspectCalls ==
    {Call(SpergelSeries(1, 0, 1, None), <<>>),
     Call(SpergelSeries(1, 1, 3, None), <<>>)}

\* the point the values are asked at
PointCalls == {[self |-> c.self, args |-> <<PositionD(1, 0)>>] : c \in InspectCalls}

InspectImageStep ==
    /\ ncalls < MaxCalls
    /\ \E c \in InspectCalls : DrawImage(c.self, c.args, c.kwargs)
    /\ ncalls' = ncalls + 1

InspectKImageStep ==
    /\ ncalls < MaxCalls
    /\ \E c \in InspectCalls : DrawKImage(c.self, c.args, c.kwargs)
    /\ ncalls' = ncalls + 1

KValueStep == \E c \in PointCalls : KValue(c.self, c.args) /\ UNCHANGED ncalls

XValueStep == \E c \in PointCalls : XValue(c.self, c.args) /\ UNCHANGED ncalls

\* draws, point values and cache reports in any order
NextInspect ==
    \/ ConstructStep /\ UNCHANGED ncalls
    \/ InspectImageStep
    \/ InspectKImageStep
    \/ KValueStep
    \/ XValueStep
    \/ InspectCacheStep

SpecInspect == Init /\ [][NextInspect]_vars


(***************************************************************************)
(* Threads.  Nothing in series.py takes a lock, so a thread that calls     *)
(* drawImage can be interleaved with another between the statements of     *)
(* _basisCube.  A call is cut in two: the reads of lines 93-95, and then   *)
(* either the promotion of the link found (lines 97-104) or the build and  *)
(* insertion (lines 106-128); the cache, the root and the link are the     *)
(* locals read in the first part.                                          *)
(***************************************************************************)
\* lines 189 and 93-95: key = ...; cache = Series._cache; root = Series._root;
\* link = cache.get(key)
T_Lookup(t, self, args, kwargs) ==
    /\ maxcache # -1
    /\ pc[t] = "idle"
    /\ ncalls < MaxCalls
    /\ LET key == DrawKey(patched, self, args, kwargs)
           found == key \in DOMAIN cache
       IN  /\ tl' = [tl EXCEPT ![t] = [self |-> self, key |-> key, root |-> root,
                                       link |-> IF found THEN cache[key] ELSE None]]
           /\ pc' = [pc EXCEPT ![t] = IF found THEN "hit" ELSE "miss"]
    /\ ncalls' = ncalls + 1
    /\ UNCHANGED <<cacheVars, objectVars, extraVars, last>>

\* what drawImage returns to the caller of thread t, given what _basisCube did
T_Return(t, r) ==
    LET err == UnpackErr(r, "cube")
    IN  /\ last' = [op |-> "drawImage", self |-> tl[t].self, key |-> tl[t].key,
                    hit |-> r.hit, err |-> err, result |-> r.result,
                    oldkey |-> r.oldkey,
                    ret |-> IF err = ""
                            THEN Image(GetCoeffs(patched, tl[t].self), r.result.cube,
                                       r.result.shape)
                            ELSE None]
        /\ recent' = IF r.err = "" THEN Touch(recent, tl[t].key, maxcache) ELSE recent
        /\ pc' = [pc EXCEPT ![t] = "idle"]
        /\ tl' = [tl EXCEPT ![t] = None]

\* lines 97-104 with the link and the root read by T_Lookup
T_Hit(t) ==
    /\ pc[t] = "hit"
    /\ links' = LinkHit(links, tl[t].root, tl[t].link)
    /\ T_Return(t, [hit |-> TRUE, err |-> "", result |-> links[tl[t].link].RESULT,
                    oldkey |-> None])
    /\ UNCHANGED <<cache, kcache, root, kroot, maxcache, krecent, objectVars, extraVars, ncalls>>

\* lines 106-128 with the root read by T_Lookup; line 122 stores the new root in
\* Series._root
T_Miss(t) ==
    /\ pc[t] = "miss"
    /\ LET table == BuildCube(patched, tl[t].self, tl[t].key.args, tl[t].key.kwargs)
           m == LinkMiss(links, cache, tl[t].root, tl[t].key, table)
       IN  /\ links' = m.links
           /\ cache' = m.map
           /\ root' = IF tl[t].root = None THEN root ELSE m.root
           /\ T_Return(t, [hit |-> FALSE, err |-> m.err, result |-> table,
                           oldkey |-> m.oldkey])
    /\ UNCHANGED <<kcache, kroot, maxcache, krecent, objectVars, extraVars, ncalls>>

\* the calls the threads make
ThreadCalls ==
    {Call(SpergelSeries(1, 0, 1, None), <<>>),
     Call(SpergelSeries(1, 0, 1, None), <<Kw("scale", 1)>>),
     Call(SpergelSeries(1, 1, 3, None), <<>>)}

LookupStep ==
    \E t \in Threads : \E c \in ThreadCalls : T_Lookup(t, c.self, c.args, c.kwargs)

HitStep == \E t \in Threads : T_Hit(t)

MissStep == \E t \in Threads : T_Miss(t)

\* the first construction, and then drawImage calls from the threads
NextThreads ==
    \/ ConstructStep /\ UNCHANGED ncalls
    \/ LookupStep
    \/ HitStep
    \/ MissStep

SpecThreads == Init /\ [][NextThreads]_vars


(***************************************************************************)
(* Construction and transformation of Series objects.  Each constructor    *)
(* ends with Series.__init__(), that is with the default maxcache.         *)
(***************************************************************************)
\* largest number of Series objects constructed in a run
MaxObjs == 2

\* a constructor returned ret, or raised err before reaching Series.__init__
Constructed(op, args, err, ret) ==
    /\ last' = [op |-> op, args |-> args, err |-> err, ret |-> ret]
    /\ IF err = ""
       THEN /\ Cardinality(series \cup {ret}) <= MaxObjs
            /\ series' = series \cup {ret}
            /\ SeriesInit(DefaultMaxCache)
       ELSE UNCHANGED <<series, cacheVars>>
    /\ UNCHANGED <<threadVars, extraVars, ncalls>>

NewSpergelSeries ==
    \E jmax \in 0..1 :
        /\ Constructed("SpergelSeries", <<1, jmax, 1>>, "",
                       SpergelSeries(1, jmax, 1, None))
        /\ UNCHANGED patched

NewMoffatSeries ==
    /\ Constructed("MoffatSeries", <<3, 1, 3>>, "", MoffatSeries(3, 1, 3, None))
    /\ UNCHANGED patched

NoAberrations == [n \in 1..10 |-> 0]

\* lam_over_diam = 1 with no aberration, with defocus = 1, with two explicit
\* lists (one too short), lam = diam = 1 in place of lam_over_diam, lam given
\* with lam_over_diam, and lam given alone
LinearOpticalArgs ==
    {<<Num(1), None, None, NoAberrations, None>>,
     <<Num(1), Num(1), None, NoAberrations, None>>,
     <<None, Num(1), None, NoAberrations, None>>,
     <<Num(1), None, None, [NoAberrations EXCEPT ![3] = 1], None>>,
     <<Num(1), None, None, NoAberrations, PyList(<<0, 0, 0, 1>>)>>,
     <<Num(1), None, None, NoAberrations, PyList(<<0, 1>>)>>,
     <<None, Num(1), Num(1), NoAberrations, None>>}

NewLinearOpticalSeries ==
    \E a \in LinearOpticalArgs :
        LET r == LinearOpticalSeries(a[1], a[2], a[3], a[4], a[5])
        IN  /\ Constructed("LinearOpticalSeries", a, r.err,
                           IF r.err = "" THEN [f \in DOMAIN r \ {"err"} |-> r[f]]
                           ELSE None)
            /\ UNCHANGED patched

\* the plain profiles (GSObjects) of the run
Profiles == {GSObject(g) : g \in DOMAIN patched}

\* the argument tuples of SeriesConvolution(*args): none, one or two operands, a
\* list of two, an empty list, and something that is no operand
ConvolutionArgs ==
    LET pool == series \cup Profiles
    IN  {<<>>, <<Num(1)>>, <<PyList(<<>>)>>}
        \cup {<<a>> : a \in pool}
        \cup {<<a, b>> : a \in pool, b \in pool}
        \cup {<<PyList(<<a, b>>)>> : a \in Profiles, b \in pool}

\* SeriesConvolution(*args)
NewSeriesConvolution ==
    \E args \in ConvolutionArgs :
        LET a == ConvArgs(args)
            objlist == UnpackArgs(a.args)
        IN  /\ Constructed("SeriesConvolution", args, a.err,
                           IF a.err = "" THEN SeriesConvolution(objlist) ELSE None)
            /\ patched' = IF a.err = "" THEN PatchObjects(patched, objlist)
                          ELSE patched

\* self.dilate(scale), self.shear(shear) or self.rotate(theta) for the J of
\* Transforms: a transformed copy is returned
TransformStep ==
    \E self \in {o \in series : o.cls \in {"SpergelSeries", "MoffatSeries"}} :
        \E J \in Transforms :
            LET ret == ApplyMatrix(self, J)
            IN  /\ Cardinality(series \cup {ret}) <= MaxObjs
                /\ series' = series \cup {ret}
                /\ last' = [op |-> "_applyMatrix", self |-> self, J |-> J,
                            err |-> "", ret |-> ret]
                /\ UNCHANGED <<patched, cacheVars, threadVars, extraVars, ncalls>>

NextObjects ==
    \/ NewSpergelSeries
    \/ NewMoffatSeries
    \/ NewLinearOpticalSeries
    \/ NewSeriesConvolution
    \/ TransformStep

SpecObjects == Init /\ [][NextObjects]_vars


(***************************************************************************)
(* SpergelSeries and MoffatSeries objects as mutable objects.  self._A is  *)
(* an np.matrix, which `ret._A *= J` changes in place, and _decomposeA     *)
(* stores its results on self; so the objects and their matrices live at   *)
(* addresses of `heap`, and the attribute _A of an object is the reference *)
(* [ref |-> a] to the matrix at address a.                                 *)
(***************************************************************************)
\* largest number of SpergelSeries/MoffatSeries objects in a run
MaxHeap == 3

\* the addresses that hold an object (the others hold a matrix)
Objects(h) == {i \in DOMAIN h : "cls" \in DOMAIN h[i]}

\* the object at address i with its matrix read through the reference
Obj(h, i) == [h[i] EXCEPT !.A = h[h[i].A.ref]]

\* a constructor: the np.matrix of line 361 / 536 is made and stored in self._A;
\* the new object is at the last address
NewSeries(h, self) ==
    h \o <<self.A, [self EXCEPT !.A = [ref |-> Len(h) + 1]]>>

\* a copy whose attributes are the very attributes of the original: its _A is
\* the original's matrix
AliasCopy(h, i) == h \o <<h[h[i].A.ref], h[i]>>

\* copy(): ret.__dict__[k] = copy.copy(v) for every attribute; the copy of the
\* matrix is a new matrix, the other attributes are numbers; the copy is at the
\* last address
Copy(h, i) ==
    h \o <<h[h[i].A.ref], [h[i] EXCEPT !.A = [ref |-> Len(h) + 1]]>>

\* _applyMatrix(J): ret = self.copy(); ret._A *= J (in place); del ret.ellip
HeapApplyMatrix(h, i, J) ==
    LET c == Copy(h, i)
        r == Len(c)
        ret == ApplyMatrix(Obj(c, r), J)
    IN  [c EXCEPT ![c[r].A.ref] = ret.A, ![r] = [ret EXCEPT !.A = c[r].A]]

\* _decomposeA(): the results are stored on self
HeapDecomposeA(h, i) == [h EXCEPT ![i].dec = DecomposeA(Obj(h, i))]

\* the methods of an object that call _decomposeA, and what they return
Methods == {"_decomposeA", "_getCoeffs", "_series_idx"}

CallMethod(name, self) ==
    IF name = "_decomposeA" THEN DecomposeA(self)
    ELSE IF name = "_getCoeffs" THEN SeriesCoeffs(self)
    ELSE IF self.cls = "SpergelSeries" THEN SpergelSeriesIdx(self)
    ELSE MoffatSeriesIdx(self)

\* SpergelSeries(nu=1, jmax=1, scale_radius=1) or
\* MoffatSeries(beta=3, jmax=1, scale_radius=3)
HeapConstructStep ==
    \E self \in {SpergelSeries(1, 1, 1, None), MoffatSeries(3, 1, 3, None)} :
        /\ Cardinality(Objects(heap)) < MaxHeap
        /\ heap' = NewSeries(heap, self)
        /\ origin' = origin \o <<None, [base |-> self.A, Js |-> <<>>, from |-> 0,
                                         cached |-> FALSE]>>
        /\ SeriesInit(DefaultMaxCache)
        /\ last' = [op |-> self.cls, err |-> "", ret |-> Len(heap')]
        /\ UNCHANGED <<canvas, buildVars, objectVars, threadVars, ncalls>>

\* self.copy()
CopyStep ==
    \E i \in Objects(heap) :
        /\ Cardinality(Objects(heap)) < MaxHeap
        /\ heap' = Copy(heap, i)
        /\ origin' = origin \o <<None, origin[i]>>
        /\ last' = [op |-> "copy", self |-> i, err |-> "", ret |-> Len(heap')]
        /\ UNCHANGED <<canvas, buildVars, cacheVars, objectVars, threadVars, ncalls>>

\* self.dilate(scale), self.shear(shear) or self.rotate(theta), for the J of
\* Transforms
HeapTransformStep ==
    \E i \in Objects(heap) :
        \E J \in Transforms :
            /\ Cardinality(Objects(heap)) < MaxHeap
            /\ heap' = HeapApplyMatrix(heap, i, J)
            /\ origin' = origin \o <<None, [base |-> origin[i].base,
                                             Js |-> Append(origin[i].Js, J),
                                             from |-> i,
                                             cached |-> heap[i].dec # None]>>
            /\ last' = [op |-> "_applyMatrix", self |-> i, J |-> J, err |-> "",
                        ret |-> Len(heap')]
            /\ UNCHANGED <<canvas, buildVars, cacheVars, objectVars, threadVars, ncalls>>

\* self._decomposeA(), self._getCoeffs() or self._series_idx()
MethodStep ==
    \E i \in Objects(heap) :
        \E name \in Methods :
            /\ heap' = HeapDecomposeA(heap, i)
            /\ last' = [op |-> name, self |-> i, err |-> "",
                        ret |-> CallMethod(name, Obj(heap, i))]
            /\ UNCHANGED <<origin, canvas, buildVars, cacheVars, objectVars,
                           threadVars, ncalls>>

NextTransforms ==
    \/ HeapConstructStep
    \/ CopyStep
    \/ HeapTransformStep
    \/ MethodStep

SpecTransforms == Init /\ [][NextTransforms]_vars

\* the scale radii series are constructed with: a/2^k for odd a, so that
\* log(r0) is positive, zero and negative
SnapRadii == {Mat(a, 0, 0, a, k) : a \in {1, 3, 5, 7}, k \in 0..3}

\* SpergelSeries(nu=1, jmax=0, scale_radius=r) or
\* MoffatSeries(beta=3, jmax=0, scale_radius=r) in a run of its own
SnapConstructStep ==
    \E r \in SnapRadii :
        \E s \in {SpergelSeries(1, 0, 1, None), MoffatSeries(3, 0, 1, None)} :
            LET self == [s EXCEPT !.A = r]
            IN  /\ heap' = NewSeries(<<>>, self)
                /\ origin' = <<None, [base |-> self.A, Js |-> <<>>, from |-> 0,
                                       cached |-> FALSE]>>
                /\ SeriesInit(DefaultMaxCache)
                /\ last' = [op |-> self.cls, err |-> "", ret |-> Len(heap')]
                /\ UNCHANGED <<canvas, buildVars, objectVars, threadVars, ncalls>>

\* largest number of objects in a run that starts with SnapConstructStep
MaxSnapObjs == 2

\* a transform of a series constructed by SnapConstructStep
SnapTransformStep ==
    /\ Cardinality(Objects(heap)) < MaxSnapObjs
    /\ HeapTransformStep

\* series of any scale radius, transformed and decomposed
NextSnap ==
    \/ SnapConstructStep
    \/ SnapTransformStep
    \/ MethodStep

SpecSnap == Init /\ [][NextSnap]_vars


(***************************************************************************)
(* GSObject.drawImage (gsobject.py).  An Image is the record               *)
(* [cls, bounds, pix, wcs] and, once a draw has set it, added_flux.        *)
(* bounds is <<nx, ny>> for BoundsI(1, nx, 1, ny) and <<>> when undefined.  *)
(* pix is the content of the pixel buffer: the sequence of what has been   *)
(* added to an all-zero buffer (<<>> is the buffer after setZero).         *)
(***************************************************************************)
\* self.SBProfile.getGoodImageSize(1.0, wmult) of the profile drawn
GoodImageSize == 16

\* galsim.Image(nx, ny): a new image (id "new"; the image the caller made has id
\* "caller"), all pixels zero, no wcs
NewImage(nx, ny) ==
    [cls |-> "Image", id |-> "new", bounds |-> <<nx, ny>>, pix |-> <<>>,
     wcs |-> None]

\* galsim.BoundsI(1, nx, 1, ny)
BoundsI(nx, ny) == [cls |-> "BoundsI", nx |-> nx, ny |-> ny]

\* galsim.PixelScale(scale)
PixelScale(scale) == [cls |-> "PixelScale", scale |-> scale]

\* self.nyquistScale(): a positive number
NyquistScale == [cls |-> "float", v |-> 1, of |-> "nyquistScale"]

\* obj.name = v for an attribute obj may not have yet
SetAttr(obj, name, v) ==
    [f \in DOMAIN obj \cup {name} |-> IF f = name THEN v ELSE obj[f]]

\* the outcome of a step of drawImage: the exception raised ("" for none), the
\* image at hand and the value computed
Outcome(err, image, val) == [err |-> err, image |-> image, val |-> val]

\* the parameters of a drawImage call; image is "none", "canvas" (the caller's
\* Image) or "other" (something that is no Image)
DrawParams ==
    [image : {"none", "canvas", "other"},
     nxny : {<<None, None>>, <<Num(8), Num(8)>>, <<Num(8), None>>},
     bounds : {None, BoundsI(4, 4)},
     scale : {None, Num(1)},
     wcs : {None, [cls |-> "JacobianWCS"]},
     dx : {None, Num(2)},
     method : {"auto", "sb", "bogus"},
     gae : {<<1, 1, 1>>, <<0, 1, 1>>, <<1, 0, 1>>, <<1, 1, -1>>},
     add_to_image : BOOLEAN,
     setup_only : BOOLEAN,
     offset : {None},
     use_true_center : {TRUE}]

\* half a pixel: the coordinates of an offset are counted in half pixels
HalfPixel == 1

\* the profile in image coordinates (lines 1346-1359), with the shifts applied
\* to it
ImageProfile == [cls |-> "GSObject", shifts |-> <<>>]

\* prof.shift(offset)
Shift(prof, offset) == [prof EXCEPT !.shifts = Append(@, offset)]

\* GSObject._parse_offset(offset)
ParseOffset(offset) ==
    IF offset = None THEN PositionD(0, 0) ELSE PositionD(offset.x, offset.y)

\* GSObject._get_shape(image, nx, ny, bounds): numpy's shape, <<rows, columns>>;
\* every bounds of the model is defined
GetShape(image, nx, ny, bounds) ==
    IF image # None /\ image.bounds # <<>>
    THEN <<image.bounds[2], image.bounds[1]>>
    ELSE IF nx # None /\ ny # None THEN <<ny.v, nx.v>>
    ELSE IF bounds # None THEN <<bounds.ny, bounds.nx>>
    ELSE <<0, 0>>

\* _fix_center with shape[0] and shape[1] exchanged in lines 938-939
SwappedFixCenter(prof, shape, offset, use_true_center, reverse) ==
    LET dx == IF use_true_center /\ shape[1] % 2 = 0
              THEN offset.x - HalfPixel ELSE offset.x
        dy == IF use_true_center /\ shape[2] % 2 = 0
              THEN offset.y - HalfPixel ELSE offset.y
        off == IF reverse THEN PositionD(-dx, -dy) ELSE PositionD(dx, dy)
    IN  IF off = PositionD(0, 0) THEN prof ELSE Shift(prof, off)

\* GSObject._fix_center(shape, offset, use_true_center, reverse); shape[1] of
\* the code is shape[2] here (the columns)
FixCenter(prof, shape, offset, use_true_center, reverse) ==
    LET dx == IF use_true_center /\ shape[2] % 2 = 0
              THEN offset.x - HalfPixel ELSE offset.x
        dy == IF use_true_center /\ shape[1] % 2 = 0
              THEN offset.y - HalfPixel ELSE offset.y
        off == IF reverse THEN PositionD(-dx, -dy) ELSE PositionD(dx, dy)
    IN  IF off = PositionD(0, 0) THEN prof ELSE Shift(prof, off)

\* _setup_image with line 884 not guarded by line 883: a given image is always
\* set to zero
AlwaysZeroSetupImage(image, nx, ny, bounds, add_to_image, dtype) ==
    IF image # None /\ (bounds # None \/ nx # None \/ ny # None \/ dtype # None)
    THEN Outcome("ValueError", image, None)
    ELSE IF image = None
    THEN IF add_to_image \/ (bounds # None /\ (nx # None \/ ny # None))
            \/ (bounds = None /\ (nx = None) # (ny = None))
         THEN Outcome("ValueError", image, None)
         ELSE IF bounds # None THEN Outcome("", NewImage(bounds.nx, bounds.ny), None)
         ELSE IF nx # None THEN Outcome("", NewImage(nx.v, ny.v), None)
         ELSE Outcome("", NewImage(GoodImageSize, GoodImageSize), None)
    ELSE IF image.bounds = <<>> /\ add_to_image THEN Outcome("ValueError", image, None)
    ELSE IF image.bounds = <<>>
    THEN Outcome("", [image EXCEPT !.bounds = <<GoodImageSize, GoodImageSize>>,
                                   !.pix = <<>>], None)
    ELSE Outcome("", [image EXCEPT !.pix = <<>>], None)

\* GSObject._setup_image(image, nx, ny, bounds, wmult, add_to_image, dtype)
SetupImage(image, nx, ny, bounds, add_to_image, dtype) ==
    IF image # None /\ bounds # None THEN Outcome("ValueError", image, None)
    ELSE IF image # None /\ (nx # None \/ ny # None)
    THEN Outcome("ValueError", image, None)
    ELSE IF image # None /\ dtype # None THEN Outcome("ValueError", image, None)
    ELSE IF image = None
    THEN IF add_to_image THEN Outcome("ValueError", image, None)
         ELSE IF bounds # None
         THEN IF nx # None \/ ny # None THEN Outcome("ValueError", image, None)
              ELSE Outcome("", NewImage(bounds.nx, bounds.ny), None)
         ELSE IF nx # None \/ ny # None
         THEN IF nx = None \/ ny = None THEN Outcome("ValueError", image, None)
              ELSE Outcome("", NewImage(nx.v, ny.v), None)
         ELSE Outcome("", NewImage(GoodImageSize, GoodImageSize), None)
    ELSE IF image.bounds = <<>>
    THEN IF add_to_image THEN Outcome("ValueError", image, None)
         ELSE Outcome("", [image EXCEPT !.bounds = <<GoodImageSize, GoodImageSize>>,
                                        !.pix = <<>>], None)
    ELSE IF ~add_to_image THEN Outcome("", [image EXCEPT !.pix = <<>>], None)
    ELSE Outcome("", image, None)

\* _determine_wcs without lines 954-955: with both given, wcs is used
LenientDetermineWcs(scale, wcs, image) ==
    LET img == IF image # None /\ (wcs # None \/ scale # None)
               THEN [image EXCEPT !.wcs = None] ELSE image
        w == IF wcs # None THEN wcs
             ELSE IF scale # None THEN PixelScale(scale)
             ELSE IF image # None /\ image.wcs # None THEN image.wcs
             ELSE None
    IN  IF w = None \/ (w.cls = "PixelScale" /\ w.scale.v <= 0)
        THEN Outcome("", img, PixelScale(NyquistScale))
        ELSE Outcome("", img, w)

\* GSObject._determine_wcs(scale, wcs, image): val is the wcs to use; every wcs
\* of the model is uniform and a BaseWCS instance
DetermineWcs(scale, wcs, image) ==
    IF wcs # None /\ scale # None THEN Outcome("ValueError", image, None)
    ELSE LET img == IF image # None /\ (wcs # None \/ scale # None)
                    THEN [image EXCEPT !.wcs = None] ELSE image
             w == IF wcs # None THEN wcs
                  ELSE IF scale # None THEN PixelScale(scale)
                  ELSE IF image # None /\ image.wcs # None THEN image.wcs
                  ELSE None
         IN  IF w = None \/ (w.cls = "PixelScale" /\ w.scale.v <= 0)
             THEN Outcome("", img, PixelScale(NyquistScale))
             ELSE Outcome("", img, w)

\* prof.SBProfile.draw / drawShoot on a view of the image: the profile is added
\* to what the pixels hold; the flux added is returned
SBDraw(prof, image, method, wcs, flux_scale) ==
    LET drawn == [fn |-> "draw", prof |-> prof, method |-> method, wcs |-> wcs,
                  flux_scale |-> flux_scale]
    IN  Outcome("", [image EXCEPT !.pix = Append(@, drawn)],
                [fn |-> "added_photons", of |-> drawn])

\* GSObject.drawImage from line 1334 on: the checks of scale, the wcs, the image
\* set-up and the drawing; scale is the effective scale
DrawOnImage(image, p, scale) ==
    IF scale = None /\ p.wcs = None
       /\ (p.nxny[1] # None \/ p.nxny[2] # None \/ p.bounds # None)
    THEN Outcome("ValueError", image, None)
    ELSE LET w == DetermineWcs(scale, p.wcs, image)
         IN  IF w.err # "" THEN w
             ELSE LET shape == GetShape(w.image, p.nxny[1], p.nxny[2], p.bounds)
                      prof == FixCenter(ImageProfile, shape, ParseOffset(p.offset),
                                        p.use_true_center, FALSE)
                      s == SetupImage(w.image, p.nxny[1], p.nxny[2], p.bounds,
                                      p.add_to_image, None)
                  IN  IF s.err # "" THEN s
                      ELSE LET img == [s.image EXCEPT !.wcs = w.val]
                           IN  IF p.setup_only
                               THEN LET r == SetAttr(img, "added_flux", 0)
                                    IN  Outcome("", r, r)
                               ELSE LET flux_scale ==
                                            [area |-> p.gae[2], exptime |-> p.gae[3],
                                             gain |-> p.gae[1],
                                             overPixelArea |-> p.method = "sb"]
                                        d == SBDraw(prof, img, p.method, w.val, flux_scale)
                                        r == SetAttr(d.image, "added_flux",
                                                     [fn |-> "div", a |-> d.val,
                                                      b |-> flux_scale])
                                    IN  Outcome("", r, r)

\* GSObject.drawImage(image, nx, ny, bounds, scale, wcs, method=..., area=...,
\* exptime=..., gain=..., add_to_image=..., setup_only=..., dx=...), the other
\* parameters left at their defaults (gae is <<gain, area, exptime>>, nxny is
\* <<nx, ny>>); cnv is the caller's Image.  image of the
\* outcome is the caller's Image after the call.
GSDrawImage(cnv, p) ==
    LET scale == IF p.dx # None /\ p.scale = None THEN p.dx ELSE p.scale
        image == IF p.image = "canvas" THEN cnv ELSE None
    IN  IF p.image = "other" THEN Outcome("ValueError", cnv, None)
        ELSE IF p.gae[1] <= 0 \/ p.gae[2] <= 0 \/ p.gae[3] <= 0
        THEN Outcome("ValueError", cnv, None)
        ELSE IF p.method \notin {"auto", "fft", "real_space", "phot", "no_pixel", "sb"}
        THEN Outcome("ValueError", cnv, None)
        ELSE LET r == DrawOnImage(image, p, scale)
             IN  IF p.image = "canvas" THEN r
                 ELSE Outcome(r.err, cnv, r.val)

\* the pixel values an image held before the call
Prior == [fn |-> "prior"]

\* the images a caller makes: galsim.Image() with undefined bounds, or an image
\* of 8 x 8 pixels that holds earlier pixel values, with or without a wcs
CallerImages ==
    {[NewImage(8, 8) EXCEPT !.id = "caller",
                            !.bounds = b,
                            !.pix = IF b = <<>> THEN <<>> ELSE <<Prior>>,
                            !.wcs = w] :
        b \in {<<>>, <<8, 8>>}, w \in {None, PixelScale(Num(3))}}

\* before a draw the caller makes the Image to pass, or holds none
CallerStep ==
    \E img \in CallerImages \cup {None} :
        /\ canvas' = img
        /\ last' = [op |-> "Image", err |-> ""]
        /\ UNCHANGED <<heap, origin, buildVars, cacheVars, objectVars, threadVars,
                       ncalls>>

\* prof.drawImage(**p) on a plain profile
GSDrawImageStep ==
    \E p \in DrawParams :
        LET r == GSDrawImage(canvas, p)
        IN  /\ last.op \in {"start", "Image"}
            /\ p.image = "canvas" => canvas # None
            /\ canvas' = r.image
            /\ last' = [op |-> "GSObject.drawImage", p |-> p, err |-> r.err,
                        ret |-> IF r.err = "" THEN r.val ELSE None]
            /\ UNCHANGED <<heap, origin, buildVars, cacheVars, objectVars, threadVars,
                       ncalls>>

NextGSObject ==
    \/ CallerStep
    \/ GSDrawImageStep

SpecGSObject == Init /\ [][NextGSObject]_vars

\* the images a caller makes for draws with an offset: undefined bounds, or
\* an even or odd number of columns and of rows
CenterImages ==
    {[NewImage(8, 8) EXCEPT !.id = "caller",
                            !.bounds = b,
                            !.pix = IF b = <<>> THEN <<>> ELSE <<Prior>>] :
        b \in {<<>>, <<8, 8>>, <<7, 8>>, <<8, 7>>, <<7, 7>>}}

\* the parameters of the draws with an offset: the target image is given, is
\* made from nx and ny or from bounds, or is sized by the profile
CenterParams ==
    [image : {"none", "canvas"},
     nxny : {<<None, None>>, <<Num(7), Num(8)>>, <<Num(6), Num(5)>>},
     bounds : {None, BoundsI(4, 5)},
     scale : {Num(1)},
     wcs : {None},
     dx : {None},
     method : {"auto"},
     gae : {<<1, 1, 1>>},
     add_to_image : BOOLEAN,
     setup_only : BOOLEAN,
     offset : {None, PositionD(2, -1), PositionD(1, 1)},
     use_true_center : BOOLEAN]

CenterCallerStep ==
    \E img \in CenterImages \cup {None} :
        /\ canvas' = img
        /\ last' = [op |-> "Image", err |-> ""]
        /\ UNCHANGED <<heap, origin, buildVars, cacheVars, objectVars, threadVars,
                       ncalls>>

\* prof.drawImage(**p) with an offset
CenterDrawStep ==
    \E p \in CenterParams :
        LET r == GSDrawImage(canvas, p)
        IN  /\ last.op \in {"start", "Image"}
            /\ p.image = "canvas" => canvas # None
            /\ canvas' = r.image
            /\ last' = [op |-> "GSObject.drawImage", p |-> p, err |-> r.err,
                        ret |-> IF r.err = "" THEN r.val ELSE None]
            /\ UNCHANGED <<heap, origin, buildVars, cacheVars, objectVars, threadVars,
                           ncalls>>

NextCenter ==
    \/ CenterCallerStep
    \/ CenterDrawStep

SpecCenter == Init /\ [][NextCenter]_vars


(***************************************************************************)
(* BuildImages (config/process.py).  The main process draws one seed per   *)
(* object from config['image']['random_seed'] and builds the images itself *)
(* (nproc = 1) or hands the tasks to worker processes through task_queue   *)
(* and collects the results from done_queue.                               *)
(***************************************************************************)
\* largest config['nobjects']
MaxObjects == 3

\* largest config['image']['nproc'] (a positive number of processes)
MaxProc == 2

\* the configurations: nobjects, nproc, and random_seed, which ParseImage has
\* turned into {'type': 'Sequence', 'min': first_seed} (None: not configured)
Configs ==
    [nobjects : 1..MaxObjects,
     nproc : 1..MaxProc,
     random_seed : {None} \cup {[type |-> "Sequence", min |-> f, current |-> 0] :
                                   f \in {0, 1}},
     no_save : {FALSE}]

\* galsim.config.ParseValue(config['image'], 'random_seed', config, int)[0] for
\* a Sequence: the numbers min, min+1, ... one for each call; the position in
\* the sequence is kept in the config
ParseValue(cfg) ==
    [val |-> Num(cfg.random_seed.min + cfg.random_seed.current),
     config |-> [cfg EXCEPT !.random_seed.current = @ + 1]]

\* lines 345-348 and 391-394: the seed of the next object
NextSeed(cfg) ==
    IF cfg.random_seed # None THEN ParseValue(cfg)
    ELSE [val |-> None, config |-> cfg]

\* galsim.UniformDeviate(seed), and galsim.UniformDeviate() for seed = None
UniformDeviate(seed) ==
    IF seed = None THEN [cls |-> "UniformDeviate", seeded |-> FALSE]
    ELSE [cls |-> "UniformDeviate", seeded |-> TRUE, seed |-> seed.v]

\* lines 449-452: `if seed:` is false for None and for 0
SeedRng(seed) ==
    IF seed # None /\ seed.v # 0 THEN UniformDeviate(seed)
    ELSE UniformDeviate(None)

\* BuildSingleImage(seed, config): the image is what the profiles of the config
\* give with the generator rng
BuildSingleImage(seed) ==
    [cls |-> "Image", rng |-> SeedRng(seed)]

\* the string 'STOP' on the task queue
STOP == [stop |-> TRUE]

\* a loop that puts one 'STOP' less than there are workers
TooFewStops(nproc) == [j \in 1..(nproc - 1) |-> STOP]

\* lines 430-431: for j in range(nproc): task_queue.put('STOP')
Stops(nproc) == [j \in 1..nproc |-> STOP]

\* the i-th result taken is stored at index i
StoreInArrivalOrder(images, i, res) == [images EXCEPT ![i + 1] = res.result]

\* lines 412-417: result, k, proc = done_queue.get(); images[k] = im, in round i
\* of the loop
StoreResult(images, i, res) == [images EXCEPT ![res.k + 1] = res.result]

\* BuildImages(config) is called
BuildImagesStep ==
    \E cfg \in Configs :
        /\ main.pc = "idle"
        /\ config' = IF cfg.nproc = 1 THEN cfg ELSE [cfg EXCEPT !.no_save = TRUE]
        /\ main' = [pc |-> IF cfg.nproc = 1 THEN "single" ELSE "tasks",
                    k |-> 0, nproc |-> cfg.nproc, nobjects |-> cfg.nobjects,
                    images |-> IF cfg.nproc = 1 THEN <<>>
                               ELSE [n \in 1..cfg.nobjects |-> None],
                    drawn |-> <<>>]
        /\ task_queue' = <<>>
        /\ done_queue' = <<>>
        /\ workers' = <<>>
        /\ last' = [op |-> "BuildImages", err |-> ""]
        /\ UNCHANGED <<heap, origin, canvas, cacheVars, objectVars, threadVars, ncalls>>

\* lines 344-354: one round of the loop of the single-process branch
SingleBuildStep ==
    /\ main.pc = "single"
    /\ LET s == NextSeed(config)
       IN  /\ config' = s.config
           /\ main' = [main EXCEPT
                          !.images = Append(@, BuildSingleImage(s.val)),
                          !.drawn = Append(@, [k |-> main.k, seed |-> s.val,
                                               started |-> 0]),
                          !.k = @ + 1,
                          !.pc = IF main.k + 1 = main.nobjects THEN "done"
                                 ELSE "single"]
    /\ last' = [op |-> "BuildSingleImage", err |-> ""]
    /\ UNCHANGED <<task_queue, done_queue, workers, heap, origin, canvas, cacheVars,
                   objectVars, threadVars, ncalls>>

\* lines 383-396: one round of the loop that sets up the task list
PutTaskStep ==
    /\ main.pc = "tasks"
    /\ LET s == NextSeed(config)
       IN  /\ config' = s.config
           /\ task_queue' = Append(task_queue, [seed |-> s.val, k |-> main.k])
           /\ main' = [main EXCEPT
                          !.drawn = Append(@, [k |-> main.k, seed |-> s.val,
                                               started |-> Len(workers)]),
                          !.k = @ + 1,
                          !.pc = IF main.k + 1 = main.nobjects THEN "start"
                                 ELSE "tasks"]
    /\ last' = [op |-> "task_queue.put", err |-> ""]
    /\ UNCHANGED <<done_queue, workers, heap, origin, canvas, cacheVars, objectVars,
                   threadVars, ncalls>>

\* lines 403-404: Process(target=worker, ...).start(), one process per round
StartWorkerStep ==
    /\ main.pc = "start"
    /\ workers' = Append(workers, [pc |-> "get", built |-> <<>>])
    /\ main' = [main EXCEPT !.pc = IF Len(workers) + 1 = main.nproc
                                   THEN "collect" ELSE "start",
                            !.k = 0]
    /\ last' = [op |-> "Process.start", err |-> ""]
    /\ UNCHANGED <<config, task_queue, done_queue, heap, origin, canvas, cacheVars,
                   objectVars, threadVars, ncalls>>

\* worker, line 335: input.get() returns a task or 'STOP'; `built` is the list
\* of the tasks the worker has done
WorkerGetStep ==
    \E j \in DOMAIN workers :
        /\ workers[j].pc = "get"
        /\ task_queue # <<>>
        /\ workers' = [workers EXCEPT ![j] =
                          IF Head(task_queue) = STOP
                          THEN [pc |-> "stopped", built |-> workers[j].built]
                          ELSE [pc |-> "build", task |-> Head(task_queue),
                                built |-> workers[j].built]]
        /\ task_queue' = Tail(task_queue)
        /\ last' = [op |-> "input.get", err |-> ""]
        /\ UNCHANGED <<config, main, done_queue, heap, origin, canvas, cacheVars,
                       objectVars, threadVars, ncalls>>

\* worker, lines 336-337: BuildSingleImage(*args) and output.put
WorkerBuildStep ==
    \E j \in DOMAIN workers :
        /\ workers[j].pc = "build"
        /\ done_queue' = Append(done_queue,
                                [result |-> BuildSingleImage(workers[j].task.seed),
                                 k |-> workers[j].task.k, proc |-> j])
        /\ workers' = [workers EXCEPT ![j] =
                          [pc |-> "get",
                           built |-> Append(workers[j].built, workers[j].task.k)]]
        /\ last' = [op |-> "output.put", err |-> ""]
        /\ UNCHANGED <<config, main, task_queue, heap, origin, canvas, cacheVars,
                       objectVars, threadVars, ncalls>>

\* lines 411-419: one round of the loop that takes the results
CollectStep ==
    /\ main.pc = "collect"
    /\ done_queue # <<>>
    /\ main' = [main EXCEPT
                   !.images = StoreResult(@, main.k, Head(done_queue)),
                   !.k = @ + 1,
                   !.pc = IF main.k + 1 = main.nobjects THEN "stop" ELSE "collect"]
    /\ done_queue' = Tail(done_queue)
    /\ last' = [op |-> "done_queue.get", err |-> ""]
    /\ UNCHANGED <<config, task_queue, workers, heap, origin, canvas, cacheVars,
                   objectVars, threadVars, ncalls>>

\* lines 430-431: a 'STOP' for every worker; then BuildImages returns
StopStep ==
    /\ main.pc = "stop"
    /\ task_queue' = task_queue \o Stops(main.nproc)
    /\ main' = [main EXCEPT !.pc = "done"]
    /\ last' = [op |-> "STOP", err |-> ""]
    /\ UNCHANGED <<config, done_queue, workers, heap, origin, canvas, cacheVars,
                   objectVars, threadVars, ncalls>>

\* BuildImages has returned and the workers have ended: the next call can be made
ReturnStep ==
    /\ main.pc = "done"
    /\ \A j \in DOMAIN workers : workers[j].pc = "stopped"
    /\ main' = [pc |-> "idle"]
    /\ config' = None
    /\ workers' = <<>>
    /\ task_queue' = <<>>
    /\ last' = [op |-> "return", err |-> ""]
    /\ UNCHANGED <<done_queue, heap, origin, canvas, cacheVars, objectVars,
                   threadVars, ncalls>>

NextBuild ==
    \/ BuildImagesStep
    \/ SingleBuildStep
    \/ PutTaskStep
    \/ StartWorkerStep
    \/ WorkerGetStep
    \/ WorkerBuildStep
    \/ CollectStep
    \/ StopStep
    \/ ReturnStep

SpecBuild == Init /\ [][NextBuild]_vars

\* every process keeps running: the main process goes on with its loops, a
\* worker that can take something from the queue does, and every
\* BuildSingleImage call returns
BuildFairness ==
    /\ WF_vars(SingleBuildStep)
    /\ WF_vars(PutTaskStep)
    /\ WF_vars(StartWorkerStep)
    /\ WF_vars(WorkerGetStep)
    /\ WF_vars(WorkerBuildStep)
    /\ WF_vars(CollectStep)
    /\ WF_vars(StopStep)
    /\ WF_vars(ReturnStep)

SpecBuildLive == Init /\ [][NextBuild]_vars /\ BuildFairness


(***************************************************************************)
(* Properties of the caches.                                               *)
(***************************************************************************)
\* the keys of a cache dictionary under which a table is stored (the others are
\* the placeholders of the links not used yet)
TableKeys(mp) == {k \in DOMAIN mp : "idx" \in DOMAIN k}

\* of the keys cached in mp, the one reached least recently
LeastRecent(rec, mp) ==
    rec[CHOOSE i \in DOMAIN rec :
            /\ rec[i] \in TableKeys(mp)
            /\ \A j \in 1..(i - 1) : rec[j] \notin TableKeys(mp)]

\* a miss of operation op on the full cache mp (mpn after the call) drops the key
\* reached least recently and nothing else
EvictsLeastRecent(op, rec, mp, mpn) ==
    (/\ last'.op = op
     /\ ~last'.hit
     /\ maxcache >= 1
     /\ Cardinality(TableKeys(mp)) = maxcache)
    => /\ TableKeys(mp) \subseteq Range(rec)
       /\ last'.err = ""
       /\ last'.oldkey = LeastRecent(rec, mp)
       /\ TableKeys(mpn) = (TableKeys(mp) \ {LeastRecent(rec, mp)}) \cup {last'.key}

\* C1: with only drawImage called and maxcache >= 1, a miss while maxcache tables
\* are cached evicts exactly the cached key whose last access (insertion or hit)
\* is the oldest; every other cached key stays, so a key that was accessed again
\* is not the one evicted.
RealCacheEvictsLeastRecent ==
    [][EvictsLeastRecent("drawImage", recent, cache, cache')]_vars

\* a drawImage miss on a full cache of two has evicted one key and kept the other
RealEvictionReached ==
    /\ last.op = "drawImage"
    /\ ~last.hit
    /\ last.err = ""
    /\ maxcache = 2
    /\ "idx" \in DOMAIN last.oldkey
    /\ TableKeys(cache) =
         {last.key, DrawKey(patched, SpergelSeries(1, 0, 1, None), <<>>, <<>>)}
    /\ last.oldkey =
         DrawKey(patched, SpergelSeries(1, 0, 1, None), <<>>, <<Kw("scale", 1)>>)
    /\ last.key = DrawKey(patched, SpergelSeries(1, 1, 3, None), <<>>, <<>>)

\* C2: with only drawKImage called and maxcache >= 1, a miss while maxcache tables
\* are cached evicts exactly the least recently accessed cached key, so a key that
\* was just accessed again is never the one evicted by the next miss.
FourierCacheEvictsLeastRecent ==
    [][EvictsLeastRecent("drawKImage", krecent, kcache, kcache')]_vars

\* the tables a miss of operation op stores under key
TablesFor(op, key) ==
    {IF op = "drawImage"
     THEN BuildCube(patched, c.self, key.args, key.kwargs)
     ELSE BuildKCube(patched, c.self, key.args, key.kwargs) :
         c \in {d \in DrawCalls : DrawKey(patched, d.self, d.args, d.kwargs) = key}}

\* C3: a drawImage or drawKImage call whose key is still cached is a hit that
\* uses the table an earlier miss stored under that key; calls that differ in a
\* keyword (name or value) have different keys; the order in which the keywords
\* are written does not change the key.
HitUsesStoredTable ==
    /\ (last.op \in {"drawImage", "drawKImage"} /\ last.hit)
       => /\ last.err = ""
          /\ last.result \in TablesFor(last.op, last.key)
    /\ \A c, d \in DrawCalls :
          LET ck == DrawKey(patched, c.self, c.args, c.kwargs)
              dk == DrawKey(patched, d.self, d.args, d.kwargs)
          IN  /\ Range(c.kwargs) # Range(d.kwargs) => ck # dk
              /\ (c.self = d.self /\ c.args = d.args
                  /\ Range(c.kwargs) = Range(d.kwargs)) => ck = dk

\* C4: the key determines the table: a table found under the key of a drawImage
\* call is the table the requesting Series would have built itself.
KeyDeterminesTable ==
    (last.op = "drawImage" /\ last.hit /\ last.err = "")
    => last.result = BuildCube(patched, last.self, last.key.args, last.key.kwargs)

CapacityFixedByFirstConstruction ==
    [][(maxcache # -1 /\ last'.op = "Series")
       => UNCHANGED <<links, cache, kcache, root, kroot, maxcache>>]_vars

(***************************************************************************)
(* Properties of concurrent calls.                                         *)
(***************************************************************************)
\* what holds of the real-space cache after any drawImage calls made one after
\* another on a cache of maxcache >= 1: every dictionary entry leads to the link
\* that holds its key, the dictionary has maxcache entries, the root holds no key
SequentialCacheState ==
    /\ \A k \in DOMAIN cache : links[cache[k]].KEY = k
    /\ Cardinality(DOMAIN cache) = maxcache
    /\ links[root].KEY = None

\* C7: when threads call drawImage concurrently, each lookup-and-update of the
\* cache takes effect as one atomic step: no call fails, and whenever no call is
\* under way the cache is in a state that calls made one after another produce.
ConcurrentDrawsAtomic ==
    maxcache >= 1
    => /\ (last.op = "drawImage" => last.err = "")
       /\ (\A t \in Threads : pc[t] = "idle") => SequentialCacheState

(***************************************************************************)
(* Properties of the Series objects.                                       *)
(***************************************************************************)
\* an operand as the series it stands for: a plain profile is the one-term series
\* with basis [itself] and coefficient [1]
OperandBasis(o) == IF IsGSObject(o) THEN <<o>> ELSE GetBasisFuncs(patched, o)

OperandCoeffs(o) == IF IsGSObject(o) THEN <<Num(1)>> ELSE GetCoeffs(patched, o)

\* the ways to take one basis function from each operand
TermChoices(ops) ==
    LET lens == {Len(OperandBasis(ops[n])) : n \in DOMAIN ops}
        top == IF lens = {} THEN 0 ELSE CHOOSE l \in lens : \A k \in lens : k <= l
    IN  {c \in [DOMAIN ops -> 1..top] :
            \A n \in DOMAIN ops : c[n] <= Len(OperandBasis(ops[n]))}

\* C8: the basis of a SeriesConvolution is the full Cartesian product of the
\* operands' bases, each element the convolution of one basis function of each
\* operand in operand order; the i-th coefficient is the product of the
\* coefficients that belong to the i-th element; a plain profile counts as the
\* series with basis [itself] and coefficient [1], wherever it stands.
ConvolutionIsProduct ==
    (last.op = "SeriesConvolution" /\ last.err = "")
    => LET ops == last.ret.objlist
           basis == GetBasisFuncs(patched, last.ret)
           coeffs == GetCoeffs(patched, last.ret)
           term(c) == Convolve([n \in DOMAIN ops |-> OperandBasis(ops[n])[c[n]]])
           factors(c) == [n \in DOMAIN ops |-> OperandCoeffs(ops[n])[c[n]]]
       IN  /\ Len(basis) = Cardinality(TermChoices(ops))
           /\ Len(coeffs) = Len(basis)
           /\ \A c \in TermChoices(ops) :
                 \E i \in DOMAIN basis : basis[i] = term(c) /\ coeffs[i] = factors(c)

\* the operands of a construction with every convolution among them replaced by
\* its own operands, at any depth
RECURSIVE Leaves(_)
Leaves(args) ==
    IF args = <<>> THEN <<>>
    ELSE IF Head(args).cls = "SeriesConvolution"
         THEN Leaves(Head(args).objlist) \o Leaves(Tail(args))
         ELSE <<Head(args)>> \o Leaves(Tail(args))

\* C9: nested convolutions flatten: the object built from operands that contain
\* convolutions has the flat operand list, and the same basis, coefficients and
\* key as the convolution built from the flat list; no operand of a constructed
\* SeriesConvolution is a SeriesConvolution.
NestedConvolutionsFlatten ==
    /\ \A o \in series :
          o.cls = "SeriesConvolution"
          => \A n \in DOMAIN o.objlist : o.objlist[n].cls # "SeriesConvolution"
    /\ (last.op = "SeriesConvolution" /\ last.err = "")
       => LET flat == Leaves(ConvArgs(last.args).args)
              direct == SeriesConvolution(UnpackArgs(flat))
          IN  /\ last.ret.objlist = flat
              /\ PatchObjects(patched, UnpackArgs(flat)) = patched
              /\ GetBasisFuncs(patched, last.ret) = GetBasisFuncs(patched, direct)
              /\ GetCoeffs(patched, last.ret) = GetCoeffs(patched, direct)
              /\ SeriesIdx(patched, last.ret) = SeriesIdx(patched, direct)

\* a convolution has been built from an operand that is itself a convolution
NestedConvolutionBuilt ==
    /\ last.op = "SeriesConvolution"
    /\ last.err = ""
    /\ \E n \in DOMAIN last.args : last.args[n].cls = "SeriesConvolution"
    /\ Len(last.ret.objlist) >= 3

\* C10: every Series object has as many coefficients as basis functions.
CoeffsMatchBasis ==
    \A o \in series :
        LET basis == GetBasisFuncs(patched, o)
        IN  /\ ~Raises(basis)
            /\ Len(GetCoeffs(patched, o)) = Len(basis)


(***************************************************************************)
(* Properties of the SeriesConvolution constructor.                        *)
(***************************************************************************)
\* C11: constructing a SeriesConvolution from zero operands (no argument, or one
\* argument that is an empty list) raises an error, and no SeriesConvolution
\* with an empty operand list exists.
EmptyConvolutionFails ==
    /\ (/\ last.op = "SeriesConvolution"
        /\ last.args \in {<<>>, <<PyList(<<>>)>>})
       => last.err # ""
    /\ \A o \in series : o.cls = "SeriesConvolution" => o.objlist # <<>>


(***************************************************************************)
(* Properties of the transforms of a SpergelSeries / MoffatSeries.         *)
(***************************************************************************)
\* the decomposition computed from the matrix self has now
FreshDecomposition(self) == DecomposeA([self EXCEPT !.dec = None])

\* C12: the decomposition an object returns (from its cache or computed) is the
\* decomposition of its current matrix, after any constructions, copies,
\* transforms and method calls; so is what the last _decomposeA call returned.
DecompositionIsCurrent ==
    /\ \A i \in Objects(heap) :
          DecomposeA(Obj(heap, i)) = FreshDecomposition(Obj(heap, i))
    /\ last.op = "_decomposeA" => last.ret = FreshDecomposition(Obj(heap, last.self))

\* an object made by transforming an object that held a cached decomposition
\* has been decomposed itself, and its decomposition differs from that one
DecomposedAfterTransform ==
    /\ last.op = "_decomposeA"
    /\ origin[last.self].cached
    /\ heap[origin[last.self].from].dec # None
    /\ last.ret # heap[origin[last.self].from].dec
    /\ last.ret.scale_radius # heap[origin[last.self].from].dec.scale_radius

\* T_n . ... . T_1 . A for Js = <<T_1, ..., T_n>>
RECURSIVE LaterOnLeft(_, _)
LaterOnLeft(Js, A) ==
    IF Js = <<>> THEN A
    ELSE LaterOnLeft(Tail(Js), MatMul(Head(Js), A))

\* C13: the matrix of an object made from a series of matrix A by the
\* transforms T_1, ..., T_n in this order is T_n . ... . T_1 . A.
LaterTransformOnLeft ==
    \A i \in Objects(heap) :
        Obj(heap, i).A = LaterOnLeft(origin[i].Js, origin[i].base)

\* what the claim C17 lists of the object at address i
View(h, i) ==
    [A |-> Obj(h, i).A,
     coeffs |-> SeriesCoeffs(Obj(h, i)),
     idx |-> CallMethod("_series_idx", Obj(h, i))]

\* C17: no step changes the matrix, the coefficients or the cache key of an
\* object that exists already, and only a method called on the object itself
\* changes its cached decomposition: dilate, shear and rotate leave the receiver
\* as it was, and so does anything done later to the object they returned.
ReceiverNotMutated ==
    [][\A i \in Objects(heap) :
          /\ i \in Objects(heap')
          /\ View(heap', i) = View(heap, i)
          /\ (heap'[i].dec # heap[i].dec)
             => (last'.op \in Methods /\ last'.self = i)]_vars

\* an object returned by a transform of a decomposed receiver has been
\* transformed again, and the result decomposed
ReturnedObjectUsed ==
    /\ last.op \in Methods
    /\ Len(origin[last.self].Js) = 2
    /\ \E i \in Objects(heap) :
          /\ origin[origin[last.self].from].from = i
          /\ origin[origin[last.self].from].cached
          /\ heap[i].dec # None
          /\ Obj(heap, i).A # Obj(heap, last.self).A


(***************************************************************************)
(* Properties of GSObject.drawImage.                                       *)
(***************************************************************************)
\* C14: a drawImage call that returns normally, on a plain profile or on a
\* Series, returns an Image that has the attribute added_flux.
DrawImageSetsAddedFlux ==
    (last.op \in {"drawImage", "GSObject.drawImage"} /\ last.err = "")
    => "added_flux" \in DOMAIN last.ret

ValidMethods == {"auto", "fft", "real_space", "phot", "no_pixel", "sb"}

\* nx, ny or bounds is given
SizeGiven(p) == p.nxny[1] # None \/ p.nxny[2] # None \/ p.bounds # None

\* the inputs the claim C15 lists, except the one about scale and wcs
ListedInput(p) ==
    \/ p.method \notin ValidMethods
    \/ \E n \in 1..3 : p.gae[n] <= 0
    \/ p.image = "canvas" /\ SizeGiven(p)
    \/ p.scale # None /\ p.wcs # None

\* the call raised, returned nothing and left the pixels and the bounds of the
\* caller's image as they were
RaisedAndDrewNothing ==
    /\ last'.err # ""
    /\ last'.ret = None
    /\ IF canvas = None THEN canvas' = None
       ELSE canvas'.pix = canvas.pix /\ canvas'.bounds = canvas.bounds

\* C15 as stated: drawImage raises and draws nothing for an invalid method name,
\* for gain, area or exptime <= 0, for nx, ny or bounds given with neither scale
\* nor wcs, for an image given together with nx, ny or bounds, and for scale and
\* wcs both given, whatever the other parameters are.
BadInputRaises ==
    [][(/\ last'.op = "GSObject.drawImage"
        /\ \/ ListedInput(last'.p)
           \/ SizeGiven(last'.p) /\ last'.p.scale = None /\ last'.p.wcs = None)
       => RaisedAndDrewNothing]_vars

\* C15, amended: the same, where `neither scale nor wcs` means that scale, its
\* former name dx and wcs are all absent.
BadInputRaisesUnlessDx ==
    [][(/\ last'.op = "GSObject.drawImage"
        /\ \/ ListedInput(last'.p)
           \/ /\ SizeGiven(last'.p)
              /\ last'.p.scale = None /\ last'.p.dx = None /\ last'.p.wcs = None)
       => RaisedAndDrewNothing]_vars

\* the caller's image, which holds pixel values, was passed with nx and ny and a
\* scale; every other parameter was valid; the call raised
ImageWithSizeRejected ==
    /\ last.op = "GSObject.drawImage"
    /\ last.p.image = "canvas"
    /\ last.p.nxny = <<Num(8), Num(8)>>
    /\ last.p.scale # None /\ last.p.wcs = None
    /\ last.p.method = "auto" /\ last.p.gae = <<1, 1, 1>>
    /\ last.err # ""
    /\ canvas.pix = <<Prior>>

\* C16: drawImage leaves the bounds of a caller's image with defined bounds as
\* they are and changes bounds only of a passed image whose bounds are
\* undefined; it returns the passed image when one is passed and a new image
\* only when none is; without add_to_image the earlier pixel values are gone
\* and only what the call drew is there, with add_to_image they are kept and
\* the drawing is added; add_to_image with no image or with an image of
\* undefined bounds raises.
CallerImageRespected ==
    [][last'.op = "GSObject.drawImage" =>
        LET p == last'.p
            drawn == IF p.setup_only THEN 0 ELSE 1
        IN  /\ (canvas # None /\ canvas.bounds # <<>>)
               => canvas'.bounds = canvas.bounds
            /\ (canvas # None /\ canvas'.bounds # canvas.bounds)
               => (p.image = "canvas" /\ canvas.bounds = <<>>)
            /\ p.image # "canvas" => canvas' = canvas
            /\ last'.err = ""
               => /\ last'.ret.id = "new" <=> p.image = "none"
                  /\ p.image = "canvas" => last'.ret = canvas'
                  /\ Len(last'.ret.pix)
                        = drawn + (IF p.add_to_image THEN Len(canvas.pix) ELSE 0)
                  /\ p.add_to_image
                     => SubSeq(last'.ret.pix, 1, Len(canvas.pix)) = canvas.pix
                  /\ ~p.add_to_image
                     => \A n \in DOMAIN last'.ret.pix : last'.ret.pix[n] # Prior
            /\ (p.add_to_image
                /\ (p.image = "none" \/ (p.image = "canvas" /\ canvas.bounds = <<>>)))
               => last'.err # ""]_vars

\* a profile has been added to the earlier pixel values of the caller's image
AddedToCallerImage ==
    /\ last.op = "GSObject.drawImage"
    /\ last.err = ""
    /\ last.p.add_to_image
    /\ last.ret.id = "caller"
    /\ Len(canvas.pix) = 2
    /\ canvas.pix[1] = Prior
    /\ canvas.bounds = <<8, 8>>


(***************************************************************************)
(* Properties of kValue, xValue and inspectCache.                          *)
(***************************************************************************)
\* C18: kValue, xValue and inspectCache leave the links, both dictionaries and
\* both roots as they are (the cached keys, the tables and the order of the
\* rings), whether or not a table of the Series is cached; kValue and xValue
\* return the combination of the values of the basis functions themselves.
PointValuesBypassCache ==
    [][last'.op \in {"kValue", "xValue", "inspectCache"} =>
        /\ UNCHANGED <<links, cache, kcache, root, kroot, recent, krecent>>
        /\ last'.op \in {"kValue", "xValue"}
           => LET objs == GetBasisFuncs(patched, last'.self)
              IN  /\ last'.err = ""
                  /\ last'.ret.coeffs = GetCoeffs(patched, last'.self)
                  /\ last'.ret.vals =
                        [n \in DOMAIN objs |->
                            [fn |-> last'.op, obj |-> objs[n],
                             args |-> last'.args]]]_vars

\* kValue has been called on a Series whose Fourier-space table is cached, while
\* another key is cached too
KValueOfCachedSeries ==
    /\ last.op = "kValue"
    /\ maxcache >= 2
    /\ DrawKey(patched, last.self, <<>>, <<>>) \in DOMAIN kcache
    /\ Cardinality(TableKeys(kcache)) = 2
    /\ Cardinality(TableKeys(cache)) >= 1

\* C19: the counts inspectCache reports are the number of tables held in the
\* real-space cache and the number of tables held in the Fourier-space cache.
InspectCacheCounts ==
    last.op = "inspectCache"
    => /\ last.err = ""
       /\ last.i = Cardinality(TableKeys(cache))
       /\ last.ik = Cardinality(TableKeys(kcache))


(***************************************************************************)
(* Properties of BuildImages.                                              *)
(***************************************************************************)
\* C20: with a random_seed configured, the seeds are drawn in index order, in
\* the multi-process branch before any worker is started; the seed of object k
\* depends on the configuration and k only (so it is the same in both branches
\* and for every interleaving); and every image built is the image of object k
\* built with a generator seeded by that seed.
SeedsFixedBeforeWorkers ==
    (main.pc # "idle" /\ config.random_seed # None)
    => /\ \A n \in DOMAIN main.drawn :
             /\ main.drawn[n].k = n - 1
             /\ main.drawn[n].started = 0
             /\ main.drawn[n].seed = Num(config.random_seed.min + n - 1)
       /\ \A n \in DOMAIN main.images :
             main.images[n] # None
             => main.images[n].rng = UniformDeviate(main.drawn[n].seed)

(***************************************************************************)
(* Properties of the centering of GSObject.drawImage.                      *)
(***************************************************************************)
\* the offset the profile drawn was shifted by, (0, 0) if it was not shifted
ShiftOf(prof) ==
    IF prof.shifts = <<>> THEN PositionD(0, 0) ELSE prof.shifts[1]

\* the user offset, less half a pixel on every axis of img with an even number
\* of pixels
CenteredOffset(offset, img) ==
    PositionD(offset.x - (IF img.bounds[1] % 2 = 0 THEN HalfPixel ELSE 0),
              offset.y - (IF img.bounds[2] % 2 = 0 THEN HalfPixel ELSE 0))

\* a drawImage call has drawn
HasDrawn ==
    /\ last.op = "GSObject.drawImage"
    /\ last.err = ""
    /\ ~last.p.setup_only

\* the last thing drawn on the image returned
LastDrawn == last.ret.pix[Len(last.ret.pix)]

\* C21 as stated: the profile drawn was shifted at most once, by the user
\* offset less half a pixel on every axis on which the image drawn onto has an
\* even number of pixels.
CenterFixedOnEvenAxes ==
    HasDrawn
    => /\ Len(LastDrawn.prof.shifts) <= 1
       /\ ShiftOf(LastDrawn.prof)
             = CenteredOffset(ParseOffset(last.p.offset), last.ret)

\* C21 amended: with use_true_center the shift is the user offset less half a
\* pixel on every even axis of the image drawn onto; without use_true_center it
\* is the user offset alone.
CenterFixedWhenTrueCenter ==
    HasDrawn
    => /\ Len(LastDrawn.prof.shifts) <= 1
       /\ ShiftOf(LastDrawn.prof)
             = IF last.p.use_true_center
               THEN CenteredOffset(ParseOffset(last.p.offset), last.ret)
               ELSE ParseOffset(last.p.offset)

\* a profile with an offset was drawn with use_true_center on a caller's image of
\* 7 columns and 8 rows
DrawnOnOddByEven ==
    /\ HasDrawn
    /\ last.p.use_true_center
    /\ last.p.image = "canvas"
    /\ last.p.offset = PositionD(2, -1)
    /\ last.ret.bounds = <<7, 8>>
    /\ ShiftOf(LastDrawn.prof) = PositionD(2, -2)

(***************************************************************************)
(* Properties of the snapping of the scale radius.                         *)
(***************************************************************************)
\* the sign of x - (n + 1/2), for x = log(r0)/dlnr of the matrix A
CmpHalf(A, n) == CmpPow2(NormSq(A), 2*n + 2 + 2*A.k)

\* |x - n| <= 1/2
WithinHalf(A, n) == CmpHalf(A, n - 1) >= 0 /\ CmpHalf(A, n) <= 0

\* |x - n| < 1/2
NearestIs(A, n) == CmpHalf(A, n - 1) > 0 /\ CmpHalf(A, n) < 0

\* the objects _decomposeA has been called on
Decomposed == {i \in Objects(heap) : heap[i].dec # None}

\* C22: the grid index _decomposeA chooses is within 1/2 of log(r0)/dlnr, and
\* two series of one class and order whose radii have the same nearest grid
\* index have the same scale_radius and the same _series_idx.
SnapsToNearest ==
    /\ \A i \in Decomposed : WithinHalf(Obj(heap, i).A, heap[i].dec.scale_radius)
    /\ \A i, j \in Decomposed :
          (/\ heap[i].cls = heap[j].cls
           /\ heap[i].jmax = heap[j].jmax
           /\ \E n \in (0 - SnapRange)..SnapRange :
                 NearestIs(Obj(heap, i).A, n) /\ NearestIs(Obj(heap, j).A, n))
          => /\ heap[i].dec.scale_radius = heap[j].dec.scale_radius
             /\ CallMethod("_series_idx", Obj(heap, i))
                   = CallMethod("_series_idx", Obj(heap, j))

\* a series of scale radius 5/8 (log(r0)/dlnr = -0.68) is snapped to the grid
\* point 1/2, and a sheared copy of it is snapped as well
SnappedBelowOne ==
    /\ 2 \in Decomposed
    /\ Obj(heap, 2).A = Mat(5, 0, 0, 5, 3)
    /\ heap[2].dec.scale_radius = -1
    /\ \E i \in Decomposed : i # 2 /\ Obj(heap, i).A.m[2] # 0

(***************************************************************************)
(* Properties of the two caches together.                                  *)
(***************************************************************************)
\* the links made for the cache `space`
Nodes(space) == {l \in DOMAIN links : l.space = space}

\* the links of `space` are the same before and after the step
NodesUnchanged(space) ==
    \A l \in DOMAIN links : l.space = space => links'[l] = links[l]

\* C23: a drawKImage call changes nothing in the real-space cache (keys, tables,
\* recency order, root, links), a drawImage call changes nothing in the
\* Fourier-space cache, and with a cache of at least one slot no call fails.
CachesIndependent ==
    [][/\ last'.op = "drawKImage"
          => /\ cache' = cache /\ root' = root /\ recent' = recent
             /\ NodesUnchanged("cache")
       /\ last'.op = "drawImage"
          => /\ kcache' = kcache /\ kroot' = kroot /\ krecent' = krecent
             /\ NodesUnchanged("kcache")
       /\ (last'.op \in {"drawImage", "drawKImage"} /\ maxcache >= 1)
          => last'.err = ""]_vars

\* the links reached from l in at most n steps along NEXT, inside the set ns
RECURSIVE Walk(_, _, _)
Walk(l, n, ns) ==
    IF n = 0 \/ l \notin ns THEN {}
    ELSE {l} \cup Walk(links[l].NEXT, n - 1, ns)

\* the cache (mp, rt) with its links of `space` is one ring of maxcache + 1 links
\* of its own, the root without a key, and the dictionary holds exactly the keys
\* of the other links, each mapped to its link
RingIntact(space, mp, rt) ==
    LET ns == Nodes(space)
    IN  /\ rt \in ns
        /\ Cardinality(ns) = maxcache + 1
        /\ \A l \in ns :
              /\ links[l].NEXT \in ns
              /\ links[l].PREV \in ns
              /\ links[links[l].NEXT].PREV = l
              /\ links[links[l].PREV].NEXT = l
        /\ Walk(rt, maxcache + 1, ns) = ns
        /\ links[rt].KEY = None
        /\ DOMAIN mp = {links[l].KEY : l \in ns \ {rt}}
        /\ \A k \in DOMAIN mp : mp[k] \in ns /\ links[mp[k]].KEY = k

\* C24: from the first construction on, and after every hit and miss, each cache
\* is one circular doubly-linked list of maxcache + 1 links of its own, with a
\* keyless root and a dictionary that holds exactly the keys of the other links.
RingsIntact ==
    maxcache # -1
    => /\ RingIntact("cache", cache, root)
       /\ RingIntact("kcache", kcache, kroot)

(***************************************************************************)
(* Properties of a miss whose build fails.                                 *)
(***************************************************************************)
\* the call of the step is a miss on a key whose table cannot be built
FailedBuild ==
    /\ last'.op \in {"drawImage", "drawKImage"}
    /\ ~last'.hit
    /\ BuildErr(patched, last'.self, last'.key.kwargs) # ""

\* C25: a miss whose build raises gives the caller that error and leaves both
\* caches as they were: dictionaries, links, roots and recency order.
FailedBuildKeepsCache ==
    [][FailedBuild
       => /\ last'.err = BuildErr(patched, last'.self, last'.key.kwargs)
          /\ last'.ret = None
          /\ UNCHANGED <<links, cache, kcache, root, kroot, recent, krecent>>]_vars

\* a drawKImage call failed on a miss while both caches held a table
BuildFailedOnFilledCache ==
    /\ last.op = "drawKImage"
    /\ last.err = "ValueError"
    /\ krecent # <<>>
    /\ recent # <<>>

(***************************************************************************)
(* Properties of successive SeriesConvolution constructions.               *)
(***************************************************************************)
\* the convolutions constructed so far
Convolutions == {c \in series : c.cls = "SeriesConvolution"}

\* what the convolution c computes when the lambdas of the profiles are pt
Computes(pt, c) ==
    [basis |-> GetBasisFuncs(pt, c), coeffs |-> GetCoeffs(pt, c),
     idx |-> SeriesIdx(pt, c)]

\* C26: a SeriesConvolution construction leaves what every convolution made
\* before it computes (_getBasisFuncs, _getCoeffs, _series_idx) as it was, and
\* every plain profile that is an operand reports itself as its basis function
\* and identity.
ConstructionKeepsOthers ==
    [][(last'.op = "SeriesConvolution" /\ last'.err = "")
       => /\ \A c \in Convolutions : Computes(patched', c) = Computes(patched, c)
          /\ \A g \in DOMAIN patched :
                patched'[g] # None => patched'[g] = GSObject(g)]_vars

(***************************************************************************)
(* Properties of a GSObject.drawImage call that raises.                    *)
(***************************************************************************)
\* C27: when GSObject.drawImage raises, the image the caller passed is as before
\* the call: the same pixel values, bounds and wcs.
ErrorKeepsCallerImage ==
    [][(/\ last'.op = "GSObject.drawImage"
        /\ last'.err # ""
        /\ last'.p.image = "canvas")
       => canvas' = canvas]_vars

(***************************************************************************)
(* Properties of the multi-process branch of BuildImages.                  *)
(***************************************************************************)
\* the multi-process branch is running and every task has been put
TasksPut ==
    /\ main.pc \in {"start", "collect", "stop", "done"}
    /\ main.nproc > 1

\* how often k occurs in the sequence s
RECURSIVE Count(_, _)
Count(s, k) ==
    IF s = <<>> THEN 0
    ELSE (IF Head(s) = k THEN 1 ELSE 0) + Count(Tail(s), k)

\* the tasks waiting on the queue, by their index
Waiting == [n \in DOMAIN task_queue |->
               IF task_queue[n] = STOP THEN -1 ELSE task_queue[n].k]

\* the number of workers that have task k at hand
RECURSIVE AtHand(_, _)
AtHand(j, k) ==
    IF j = 0 THEN 0
    ELSE (IF workers[j].pc = "build" /\ workers[j].task.k = k THEN 1 ELSE 0)
         + AtHand(j - 1, k)

\* the number of times task k has been done, over all workers
RECURSIVE Built(_, _)
Built(j, k) ==
    IF j = 0 THEN 0 ELSE Count(workers[j].built, k) + Built(j - 1, k)

\* C28: in the multi-process branch every task is waiting, at hand of one
\* worker or done once, never twice; every result taken fills a slot of its own,
\* with the result of the task of that index; and on return every slot holds
\* the result of its task.
EachTaskOnceInItsSlot ==
    TasksPut
    => /\ \A k \in 0..(main.nobjects - 1) :
             /\ Count(Waiting, k) + AtHand(Len(workers), k)
                   + Built(Len(workers), k) = 1
             /\ Built(Len(workers), k) <= 1
       /\ \A n \in DOMAIN main.images :
             main.images[n] # None
             => main.images[n] = BuildSingleImage(main.drawn[n].seed)
       /\ main.pc = "collect"
          => Cardinality({n \in DOMAIN main.images : main.images[n] # None}) = main.k
       /\ main.pc \in {"stop", "done"}
          => \A n \in 1..main.nobjects : main.images[n] # None

\* BuildImages has put its STOPs with all three slots filled by the results of
\* their tasks, of which worker 2 did tasks 0 and 2 and worker 1 did task 1
ReturnedAfterMixedArrival ==
    /\ main.pc = "done"
    /\ main.nproc = 2
    /\ main.nobjects = 3
    /\ config.random_seed # None
    /\ config.random_seed.min = 1
    /\ \A n \in 1..3 : main.images[n] = BuildSingleImage(Num(n))
    /\ \A j \in DOMAIN workers : workers[j].built # <<>>
    /\ workers[2].built = <<0, 2>>

\* no worker has taken a STOP while a task was still waiting or unfinished
NoEarlyStop ==
    \A j \in DOMAIN workers :
        workers[j].pc = "stopped"
        => /\ \A n \in DOMAIN task_queue : task_queue[n] = STOP
           /\ main.pc = "done"
           /\ \A k \in 0..(main.nobjects - 1) : Built(Len(workers), k) = 1

\* BuildImages has returned and every worker has taken its STOP and ended
AllStopped ==
    /\ main.pc = "done"
    /\ Len(workers) = main.nproc
    /\ \A j \in DOMAIN workers : workers[j].pc = "stopped"
    /\ task_queue = <<>>
    /\ done_queue = <<>>
    /\ \A n \in 1..main.nobjects : main.images[n] # None

\* C29: no worker takes a STOP while a task is waiting or unfinished, and once
\* the multi-process branch has begun, BuildImages collects every result and
\* returns, and every worker takes exactly one STOP and ends.
BuildImagesTerminates ==
    /\ [](main.pc # "idle" => NoEarlyStop)
    /\ (main.pc = "tasks") ~> AllStopped

\* one object and two workers: the worker without a task has ended on its STOP
IdleWorkerStopped ==
    /\ AllStopped
    /\ main.nobjects = 1
    /\ main.nproc = 2
    /\ \E j \in DOMAIN workers : workers[j].built = <<>>

(***************************************************************************)
(* Properties of the LinearOpticalSeries constructor.                      *)
(***************************************************************************)
\* (1.e-9*lam/diam)*(galsim.radians/scale_unit)
DerivedLamOverDiam(lam, diam) ==
    [cls |-> "float", fn |-> "lam_over_diam", lam |-> lam.v, diam |-> diam.v]

\* C30: the constructor stores lam_over_diam when it is given alone, stores the
\* value derived from lam and diam when these two are given instead, never an
\* undefined value, and raises when lam_over_diam comes with lam or diam or when
\* only one of lam and diam is given.
SizeParameterResolved ==
    last.op = "LinearOpticalSeries"
    => LET lam_over_diam == last.args[1]
           lam == last.args[2]
           diam == last.args[3]
       IN  /\ (lam_over_diam # None /\ (lam # None \/ diam # None))
              => last.err # ""
           /\ (lam_over_diam = None /\ (lam = None \/ diam = None))
              => last.err # ""
           /\ last.err = ""
              => /\ last.ret.lam_over_diam # None
                 /\ last.ret.lam_over_diam
                       = IF lam_over_diam # None THEN lam_over_diam
                         ELSE DerivedLamOverDiam(lam, diam)

====
